---- MODULE Spec2Model ----
(***************************************************************************)
(* Model of universe/internal/store: the Store (concurrent map + mutation  *)
(* lock) on top of the buffered, checksummed write-ahead log of wal.go     *)
(* (lines 1-251): active/pending buffer pair, background flush goroutine,  *)
(* bufio writer, log file, replay.                                         *)
(*                                                                         *)
(* Threads are goroutines.  Every action is one atomic step of one         *)
(* goroutine; a step never spans the release of a mutex that another       *)
(* goroutine can observe.                                                  *)
(***************************************************************************)
EXTENDS Integers, Sequences, FiniteSets, TLC

(***************************************************************************)
(* Bounds of the model.                                                    *)
(***************************************************************************)
\* number of Set/Delete/Recover calls issued in one behaviour
MaxOps == 3
\* number of process kills in one behaviour
MaxCrash == 1
\* number of New calls in one behaviour
MaxNew == 2
\* number of valid frames in a log file found at start
MaxFrames == 2

\* wal.go:41 sets bufferSize = 100; the model scales the flush threshold
\* down so that the threshold signal and a second signal behind it are
\* reached within MaxOps appends.
bufferSize == 2

Keys == {"a", "b"}
\* what a caller may pass as a key: a valid key or the empty string
AnyKey == Keys \cup {""}
Worker == "w"
Callers == {"c1", "c2"}
Threads == Callers \cup {Worker}
None == "none"

(***************************************************************************)
(* Byte slices.  A Go []byte is nil or a (possibly empty) byte sequence    *)
(* over a backing array.  arr names the array: two slices with the same    *)
(* non-zero arr share their bytes.  arr = 0 is an array that no goroutine   *)
(* of the model writes to (nil, and the literals a caller never touches).  *)
(***************************************************************************)
NilSlice == [isNil |-> TRUE, b |-> <<>>, arr |-> 0]
Bytes(s) == [isNil |-> FALSE, b |-> s, arr |-> 0]
\* bytes.Equal: nil and empty are equal
bytesEqual(x, y) == x.b = y.b

\* the arrays of the model, named by where and when they were allocated:
\* the buffer a caller passes to its n-th call, the array bytes.Clone makes
\* in the n-th call, the array gob makes for the i-th frame of a scan
ArgArr(n) == 2 * n
CopyArr(n) == 2 * n + 1
DecArr(i) == 0 - i

\* Clone that returns its argument: the result shares the array of x
CloneShared(x, a) == x
\* bytes.Clone: nil stays nil, anything else is a slice with equal bytes
\* over the new array a
Clone(x, a) == IF x.isNil THEN x ELSE [x EXCEPT !.arr = a]

\* values a caller passes to Set
Values == {Bytes(<<>>), Bytes(<<1>>)}

(***************************************************************************)
(* WALEntry and the gob payload.                                           *)
(***************************************************************************)
OperationSet == "set"
OperationDelete == "delete"
WALEntry(t, k, v) == [Type |-> t, Key |-> k, Value |-> v]
NoEntry == WALEntry("", "", NilSlice)

\* gob omits zero-valued fields: an empty Value is not transmitted, whether
\* it was nil or empty.  The payload carries the bytes only.
gobEncode(e) == [Type |-> e.Type, Key |-> e.Key, Value |-> e.Value.b]
\* gobDecode that drops the Value
gobDecodeLossy(p) == WALEntry(p.Type, p.Key, NilSlice)
\* decoding into a fresh WALEntry: an omitted Value stays nil
gobDecode(p) ==
    WALEntry(p.Type, p.Key, IF p.Value = <<>> THEN NilSlice ELSE Bytes(p.Value))
\* a payload that is not a gob stream of a WALEntry
BadPayload == [Type |-> "notgob", Key |-> "", Value |-> <<>>]
\* dec.Decode(&entry) returns nil
gobDecodable(p) == p # BadPayload
\* the decoder allocates the array of a non-nil Value
decodedInto(e, a) == IF e.Value.isNil THEN e ELSE [e EXCEPT !.Value.arr = a]

StrLen(s) == IF s = "" THEN 0 ELSE IF s = OperationDelete THEN 6
             ELSE IF s = OperationSet THEN 3 ELSE 1
\* every gob message starts with the type descriptor of WALEntry
gobDescLen == 4
payloadLen(p) == gobDescLen + StrLen(p.Type) + StrLen(p.Key) + Len(p.Value)

RECURSIVE SeqSum(_)
SeqSum(s) == IF s = <<>> THEN 0 ELSE Head(s) + SeqSum(Tail(s))
KeyCode(k) == IF k = "" THEN 0 ELSE IF k = "a" THEN 1 ELSE IF k = "b" THEN 2 ELSE 3
\* crc32.ChecksumIEEE: a fingerprint of the payload bytes, kept to 16 bits
\* here; it is a function of the payload and nothing else
crc32(p) ==
    (StrLen(p.Type) * 1009 + KeyCode(p.Key) * 211
       + SeqSum(p.Value) * 101 + Len(p.Value) * 13 + 7) % 65536

\* [4-byte length][4-byte checksum][payload]
Frame(e) ==
    LET p == gobEncode(e)
    IN  [length |-> payloadLen(p), checksum |-> crc32(p), payload |-> p]

(***************************************************************************)
(* The log file is the sequence of frames on disk.  cut tells how much of  *)
(* a frame has reached the file: "full", or a prefix of it left behind by  *)
(* a bufio spill (the 4096-byte writer buffer filled in the middle of the  *)
(* frame) that the rest of the cycle has not completed yet.                *)
(***************************************************************************)
Cuts == {"full", "partLen", "len", "partChk", "hdr", "partPayload"}
Item(f, c) == [frame |-> f, cut |-> c]

\* where in a frame a Write can find the writer buffer full
SpillKinds == {"partLen", "len", "partChk", "hdr", "partPayload", "full"}

\* a scan that stops at the first frame it cannot read and returns the
\* entries before it with a nil error
RECURSIVE scanTolerant(_, _)
scanTolerant(items, acc) ==
    IF items = <<>> THEN [entries |-> acc, err |-> "nil"]
    ELSE LET it == Head(items)
             f == it.frame
         IN  IF it.cut # "full" \/ f.length = 0 \/ crc32(f.payload) # f.checksum
               THEN [entries |-> acc, err |-> "nil"]
             ELSE scanTolerant(Tail(items),
                     Append(acc, decodedInto(gobDecode(f.payload), DecArr(Len(acc) + 1))))

\* WAL.ReadAll, the scan loop (wal.go:121-172).  An error is named by the
\* sentinel errors.Is finds in it: "ErrCorruptWAL", or "DecodeError" for the
\* wrapped gob error of wal.go:168, in which errors.Is finds no
\* ErrCorruptWAL.
RECURSIVE scanFromStart(_, _)
scanFromStart(items, acc) ==
    IF items = <<>> THEN [entries |-> acc, err |-> "nil"]
    ELSE LET it == Head(items)
             f == it.frame
         IN  IF it.cut = "partLen" THEN [entries |-> <<>>, err |-> "ErrCorruptWAL"]
             ELSE IF f.length = 0 THEN [entries |-> <<>>, err |-> "ErrCorruptWAL"]
             ELSE IF it.cut \in {"len", "partChk"}
                  THEN [entries |-> <<>>, err |-> "ErrCorruptWAL"]
             ELSE IF it.cut \in {"hdr", "partPayload"}
                  THEN [entries |-> <<>>, err |-> "ErrCorruptWAL"]
             ELSE IF crc32(f.payload) # f.checksum
                  THEN [entries |-> <<>>, err |-> "ErrCorruptWAL"]
             ELSE IF ~gobDecodable(f.payload)
                  THEN [entries |-> <<>>, err |-> "DecodeError"]
             ELSE scanFromStart(Tail(items),
                     Append(acc, decodedInto(gobDecode(f.payload), DecArr(Len(acc) + 1))))

(***************************************************************************)
(* The Index (csmap) and Store.applyEntry.                                 *)
(***************************************************************************)
Absent == [present |-> FALSE, val |-> NilSlice]
Present(v) == [present |-> TRUE, val |-> v]
EmptyIndex == [k \in Keys |-> Absent]

\* applyEntry whose switch treats every kind but set as a delete
applyEntryNoDefault(idx, e) ==
    IF e.Type = OperationSet /\ e.Key \in Keys
      THEN [idx EXCEPT ![e.Key] = Present(e.Value)]
    ELSE IF e.Key \in Keys
      THEN [idx EXCEPT ![e.Key] = Absent]
    ELSE idx

\* Store.applyEntry (store.go:109-118)
applyEntry(idx, e) ==
    IF e.Type = OperationSet /\ e.Key \in Keys
      THEN [idx EXCEPT ![e.Key] = Present(e.Value)]
    ELSE IF e.Type = OperationDelete /\ e.Key \in Keys
      THEN [idx EXCEPT ![e.Key] = Absent]
    ELSE idx

RECURSIVE applyAll(_, _)
applyAll(idx, es) ==
    IF es = <<>> THEN idx ELSE applyAll(applyEntry(idx, Head(es)), Tail(es))

\* Store.Get (store.go:54-62); a is the array of the copy
Get(idx, k, a) ==
    IF idx[k].present THEN [value |-> Clone(idx[k].val, a), ok |-> TRUE]
    ELSE [value |-> NilSlice, ok |-> FALSE]

VARIABLES
    storeState,     \* "none" | "init" | "ready" | "closed" | "failed" | "panicked"
    data,           \* Store.data
    smu,            \* Store.mu holder
    activeBuffer,   \* WAL.activeBuffer
    pendingBuffer,  \* WAL.pendingBuffer
    mu,             \* WAL.mu holder
    flushMu,        \* WAL.flushMu holder
    flushChan,      \* number of signals buffered in WAL.flushChan (cap 1)
    doneChan,       \* "open" | "closed"
    ticker,         \* "running" | "stale" (stopped, one tick still queued) | "stopped"
    writer,         \* bufio.Writer: frames buffered, sticky error
    fileClosed,     \* file.Close() has run on the handle
    file,           \* the log file on disk
    synced,         \* history: length of the file at the last completed cycle
    pc,             \* position of every goroutine
    loc,            \* locals of every goroutine
    submitted,      \* history: entries in the order Append took them
    history,        \* history: calls in the order they returned
    nops, ncrash, nnew,
    sm,             \* KvStore.sm of the alternate kvstore
    snapshot        \* kvstore.bin in its persistence directory

vars == <<storeState, data, smu, activeBuffer, pendingBuffer, mu, flushMu,
          flushChan, doneChan, ticker, writer, fileClosed, file, synced, pc, loc,
          submitted, history, nops, ncrash, nnew, sm, snapshot>>

walVars == <<activeBuffer, pendingBuffer, mu, flushMu, flushChan, doneChan,
             ticker, writer, fileClosed>>
histVars == <<submitted, history, nops, ncrash, nnew>>
kvVars == <<sm, snapshot>>
storeVars == <<storeState, data, smu, walVars, file, synced, pc, loc, submitted,
               ncrash, nnew>>

\* op: the call in progress; entry: its WALEntry; rng: what is left of the
\* range of flushBuffer; res: what ReadAll returned; ents: what Recover has
\* still to apply; cont: where flushBuffer returns to; seen (history): the
\* entries whose Append had returned when Recover was called
\* arg: the slice the caller passed to Set; err: the error ReadAll returned
NoLoc == [op |-> None, entry |-> NoEntry, rng |-> <<>>, res |-> <<>>, ents |-> <<>>,
          cont |-> None, seen |-> <<>>, arg |-> NilSlice, err |-> "nil"]
\* off is the offset of the file handle the writer writes through, in frames
EmptyWriter == [buf |-> <<>>, rem |-> FALSE, err |-> FALSE, off |-> 0]
\* a record of the history
Ret(op, k, v, existed, err) ==
    [op |-> op, key |-> k, val |-> v, existed |-> existed, err |-> err]

(***************************************************************************)
(* The alternate kvstore (part_003, part_005): values are kept as the JSON *)
(* text sonic.Marshal makes of them.  A JSON text is told by the Go value  *)
(* it was first made from (lit) and by the number of times the text itself *)
(* went through sonic.Marshal as a []byte (wraps): each such pass turns    *)
(* the bytes into the JSON string of their base64, a different text.       *)
(***************************************************************************)
\* the Go values a caller stores (part_004:87-88)
GoValues == {"value1", "42"}
\* sonic.Marshal(v) for v a string or a number
jsonMarshal(v) == [lit |-> v, wraps |-> 0]
\* sonic.Marshal(v) for v a []byte holding the JSON text e
jsonMarshalBytes(e) == [e EXCEPT !.wraps = @ + 1]

KvAbsent == [present |-> FALSE, val |-> jsonMarshal("")]
KvPresent(e) == [present |-> TRUE, val |-> e]
EmptyKv == [k \in Keys |-> KvAbsent]
NoSnapshot == [exists |-> FALSE, pairs |-> {}]

\* KvStore.marshalBinary (part_003:79-93): the gob of the map of all pairs
marshalBinary(m) == {<<k, m[k].val>> : k \in {x \in Keys : m[x].present}}
\* KvStore.Set(k, v) for a []byte v (part_003:43-51)
kvSetBytes(m, k, e) == [m EXCEPT ![k] = KvPresent(jsonMarshalBytes(e))]
\* KvStore.unmarshalBinary (part_003:96-109): decode the map, then
\* kvs.Set(key, val) for every pair, val being the []byte that was stored
RECURSIVE unmarshalBinary(_, _)
unmarshalBinary(m, pairs) ==
    IF pairs = {} THEN m
    ELSE LET q == CHOOSE x \in pairs : TRUE
         IN  unmarshalBinary(kvSetBytes(m, q[1], q[2]), pairs \ {q})
\* Persistence.load (part_005:39-58): no file is not an error
load(m, snap) == IF snap.exists THEN unmarshalBinary(m, snap.pairs) ELSE m

\* no process is running
NoProcess ==
    /\ storeState = "none"
    /\ data = EmptyIndex
    /\ smu = None
    /\ activeBuffer = <<>>
    /\ pendingBuffer = <<>>
    /\ mu = None
    /\ flushMu = None
    /\ flushChan = 0
    /\ doneChan = "open"
    /\ ticker = "stopped"
    /\ writer = EmptyWriter
    /\ fileClosed = TRUE
    /\ synced = 0
    /\ pc = [t \in Threads |-> IF t = Worker THEN "exited" ELSE "idle"]
    /\ loc = [t \in Threads |-> NoLoc]
    /\ history = <<>>
    /\ nops = 0
    /\ ncrash = 0
    /\ nnew = 0
    /\ sm = EmptyKv
    /\ snapshot = NoSnapshot

\* no log file at the path yet
Init ==
    /\ NoProcess
    /\ file = <<>>
    /\ submitted = <<>>

\* the entries of the frames of a log file found at start; "future" is a
\* kind this version of the Store does not know
SampleEntries ==
    {WALEntry(OperationSet, "a", Bytes(<<1>>)),
     WALEntry(OperationSet, "b", Bytes(<<>>)),
     WALEntry(OperationDelete, "a", NilSlice),
     WALEntry("future", "a", Bytes(<<3>>))}
ScanPrefixes == UNION {[1..n -> SampleEntries] : n \in 0..MaxFrames}
framesOf(es) == [i \in 1..Len(es) |-> Item(Frame(es[i]), "full")]

\* what can follow the valid frames: nothing, or one more frame that is cut
\* short, declares a zero length, carries a checksum that is not that of
\* its payload, or carries a payload gob cannot decode
TailFrame == Frame(WALEntry(OperationSet, "b", Bytes(<<2>>)))
BadFrame == [length |-> payloadLen(BadPayload), checksum |-> crc32(BadPayload),
             payload |-> BadPayload]
ScanTails ==
    {<<>>}
      \cup {<<Item(TailFrame, c)>> : c \in Cuts \ {"full"}}
      \cup {<<Item([TailFrame EXCEPT !.length = 0], "full")>>,
            <<Item([TailFrame EXCEPT !.checksum = (@ + 1) % 65536], "full")>>,
            <<Item(BadFrame, "full")>>}

\* a log file left at the path by an earlier process or by damage to the
\* disk; submitted holds the entries of its valid frames
InitScan ==
    /\ NoProcess
    /\ \E es \in ScanPrefixes, tail \in ScanTails :
          /\ file = framesOf(es) \o tail
          /\ submitted = es


(***************************************************************************)
(* bufio.Writer over the O_APPEND file.                                    *)
(***************************************************************************)
\* where a write lands when the handle is not in append mode: at its offset
writePosCursor(fl, off) == off
\* where a write lands: the file is opened O_APPEND (wal.go:69), so at the
\* end of the file whatever the offset of the handle
writePos(fl, off) == Len(fl)

\* file.Write of items through a handle at offset off.  rem: the write
\* starts with the rest of the frame whose head an earlier spill wrote.
\* Written at the end of the file, that rest completes the last frame;
\* written anywhere else it lands on the frame found there.
fileWrite(fl, off, rem, items) ==
    LET pos == writePos(fl, off)
        atEnd == pos >= Len(fl)
        done == IF ~rem \/ fl = <<>> THEN fl
                ELSE IF atEnd THEN [fl EXCEPT ![Len(fl)].cut = "full"]
                ELSE [fl EXCEPT ![pos + 1] = Item(fl[Len(fl)].frame, "partPayload")]
        from == IF rem /\ fl # <<>> /\ ~atEnd THEN pos + 1
                ELSE IF atEnd THEN Len(fl) ELSE pos
        to == from + Len(items)
    IN  [file |-> SubSeq(done, 1, from) \o items \o SubSeq(done, to + 1, Len(done)),
         off |-> to]

\* the file after the writer has handed all it holds to file.Write
flushed(fl, w) ==
    fileWrite(fl, w.off, w.rem, [i \in 1..Len(w.buf) |-> Item(w.buf[i], "full")]).file

\* the three Write calls of one frame (wal.go:234, 239, 242); s says where
\* in the frame the writer buffer filled up and was written through
writeFrame(w, fl, closed, f, s) ==
    IF w.err THEN [writer |-> w, file |-> fl]
    ELSE IF s = "none" THEN [writer |-> [w EXCEPT !.buf = Append(w.buf, f)], file |-> fl]
    ELSE IF closed THEN [writer |-> [w EXCEPT !.err = TRUE], file |-> fl]
    ELSE LET r == fileWrite(fl, w.off, w.rem,
                      Append([i \in 1..Len(w.buf) |-> Item(w.buf[i], "full")], Item(f, s)))
         IN  [writer |-> [buf |-> <<>>, rem |-> (s # "full"), err |-> FALSE, off |-> r.off],
              file |-> r.file]

\* the loop of wal.go:220-243 over es with no spill: every frame goes to
\* the writer buffer
RECURSIVE writeAll(_, _, _, _)
writeAll(w, fl, closed, es) ==
    IF es = <<>> THEN [writer |-> w, file |-> fl]
    ELSE LET r == writeFrame(w, fl, closed, Frame(Head(es)), "none")
         IN  writeAll(r.writer, r.file, closed, Tail(es))

\* flushSync without the Flush: Sync alone, the writer buffer keeps the frames
flushSyncNoFlush(w, fl, closed, ok) == [writer |-> w, file |-> fl]

\* writer.Flush() then file.Sync() (wal.go:245-246); ok = the write succeeds
flushSync(w, fl, closed, ok) ==
    IF w.err THEN [writer |-> w, file |-> fl]
    ELSE IF w.buf = <<>> /\ ~w.rem THEN [writer |-> w, file |-> fl]
    ELSE IF closed \/ ~ok THEN [writer |-> [w EXCEPT !.err = TRUE], file |-> fl]
    ELSE LET r == fileWrite(fl, w.off, w.rem,
                      [i \in 1..Len(w.buf) |-> Item(w.buf[i], "full")])
         IN  [writer |-> [EmptyWriter EXCEPT !.off = r.off], file |-> flushed(fl, w)]

(***************************************************************************)
(* WAL.flushBuffer, run by the worker and, through ReadAll and Close, by   *)
(* callers.  loc[t].cont is where t continues after the cycle.             *)
(***************************************************************************)
\* the buffer pair after the exchange of wal.go:207-211
swapped(act, pend) ==
    IF Len(act) = 0 THEN [active |-> act, pending |-> pend]
    ELSE [active |-> pend, pending |-> act]

\* wal.go:203-212
swapBuffers(t) ==
    /\ pc[t] = "fSwap"
    /\ mu = None
    /\ activeBuffer' = swapped(activeBuffer, pendingBuffer).active
    /\ pendingBuffer' = swapped(activeBuffer, pendingBuffer).pending
    /\ pc' = [pc EXCEPT ![t] = "fLock"]
    /\ UNCHANGED <<storeState, data, smu, mu, flushMu, flushChan, doneChan, ticker,
                   writer, fileClosed, file, synced, loc, histVars>>
    /\ UNCHANGED kvVars

\* wal.go:217-220: flushMu.Lock(); the range expression is evaluated once.
\* pendingBuffer is read here without mu, so a swapBuffers of another thread
\* races with this read.  The read is taken as atomic: a torn slice header
\* is not among the outcomes explored, which can only hide further
\* misbehaviour when two flushers run at once (SpecRead).
flushLock(t) ==
    /\ pc[t] = "fLock"
    /\ flushMu = None
    /\ flushMu' = t
    /\ loc' = [loc EXCEPT ![t].rng = pendingBuffer]
    /\ pc' = [pc EXCEPT ![t] = "fWrite"]
    /\ UNCHANGED <<storeState, data, smu, activeBuffer, pendingBuffer, mu, flushChan,
                   doneChan, ticker, writer, fileClosed, file, synced, histVars>>
    /\ UNCHANGED kvVars

\* wal.go:220-243: the loop up to and including the n-th next entry, whose
\* Write finds the writer buffer full and spills it to the file in the
\* middle of the frame (s).  Until a spill the loop touches nothing but the
\* writer buffer, which only the holder of flushMu reads.
flushWrite(t, n, s) ==
    /\ pc[t] = "fWrite"
    /\ s # "none"
    /\ n \in 1..Len(loc[t].rng)
    /\ LET q == writeAll(writer, file, fileClosed, SubSeq(loc[t].rng, 1, n - 1))
           r == writeFrame(q.writer, q.file, fileClosed, Frame(loc[t].rng[n]), s)
       IN  /\ writer' = r.writer
           /\ file' = r.file
    /\ loc' = [loc EXCEPT ![t].rng = SubSeq(loc[t].rng, n + 1, Len(loc[t].rng))]
    /\ UNCHANGED synced
    /\ UNCHANGED <<storeState, data, smu, activeBuffer, pendingBuffer, mu, flushMu,
                   flushChan, doneChan, ticker, fileClosed, pc, histVars>>
    /\ UNCHANGED kvVars

\* wal.go:220-246: the rest of the loop without a spill, then Flush and
\* Sync, whose results are dropped.  The history notes the cycle in which
\* the writer fails; no goroutine of the program learns of it.
flushSyncStep(t, ok) ==
    /\ pc[t] = "fWrite"
    /\ LET q == writeAll(writer, file, fileClosed, loc[t].rng)
           r == flushSync(q.writer, q.file, fileClosed, ok)
       IN  /\ writer' = r.writer
           /\ file' = r.file
           /\ synced' = IF ~r.writer.err /\ (r.file = <<>> \/ r.file[Len(r.file)].cut = "full")
                           THEN Len(r.file) ELSE synced
           /\ history' = IF r.writer.err /\ ~writer.err
                            THEN Append(history, Ret("flushError", "", NilSlice, FALSE, "dropped"))
                            ELSE history
    /\ pc' = [pc EXCEPT ![t] = "fClear"]
    /\ loc' = [loc EXCEPT ![t].rng = <<>>]
    /\ UNCHANGED <<storeState, data, smu, activeBuffer, pendingBuffer, mu, flushMu,
                   flushChan, doneChan, ticker, fileClosed, submitted, nops, ncrash, nnew>>
    /\ UNCHANGED kvVars

\* the pending buffer after wal.go:249
cleared(pend) == <<>>

\* wal.go:248-250 and the deferred flushMu.Unlock()
flushClear(t) ==
    /\ pc[t] = "fClear"
    /\ mu = None
    /\ pendingBuffer' = cleared(pendingBuffer)
    /\ flushMu' = None
    /\ pc' = [pc EXCEPT ![t] = loc[t].cont]
    /\ loc' = [loc EXCEPT ![t].cont = None]
    /\ UNCHANGED <<storeState, data, smu, activeBuffer, mu, flushChan, doneChan,
                   ticker, writer, fileClosed, file, synced, histVars>>
    /\ UNCHANGED kvVars

(***************************************************************************)
(* WAL.asyncFlush (wal.go:189-201): the select of the worker.              *)
(***************************************************************************)
workerStart(c) ==
    /\ pc' = [pc EXCEPT ![Worker] = "fSwap"]
    /\ loc' = [loc EXCEPT ![Worker].cont = c]

\* case <-t.C
asyncFlushTick ==
    /\ pc[Worker] = "select"
    /\ ticker \in {"running", "stale"}
    /\ ticker' = IF ticker = "stale" THEN "stopped" ELSE ticker
    /\ workerStart("select")
    /\ UNCHANGED <<storeState, data, smu, activeBuffer, pendingBuffer, mu, flushMu,
                   flushChan, doneChan, writer, fileClosed, file, synced, histVars>>
    /\ UNCHANGED kvVars

\* case <-w.flushChan
asyncFlushSignal ==
    /\ pc[Worker] = "select"
    /\ flushChan = 1
    /\ flushChan' = 0
    /\ workerStart("select")
    /\ UNCHANGED <<storeState, data, smu, activeBuffer, pendingBuffer, mu, flushMu,
                   doneChan, ticker, writer, fileClosed, file, synced, histVars>>
    /\ UNCHANGED kvVars

\* case <-w.doneChan: the last cycle.  Nobody receives from the stopped
\* ticker after this, so a tick left in it is dropped.
asyncFlushDone ==
    /\ pc[Worker] = "select"
    /\ doneChan = "closed"
    /\ ticker' = "stopped"
    /\ workerStart("exited")
    /\ UNCHANGED <<storeState, data, smu, activeBuffer, pendingBuffer, mu, flushMu,
                   flushChan, doneChan, writer, fileClosed, file, synced, histVars>>
    /\ UNCHANGED kvVars


(***************************************************************************)
(* Store.Set / Store.Delete and WAL.Append.                                *)
(***************************************************************************)
\* New has returned a Store; nothing in Set, Delete or Get looks at whether
\* Close has been called on it
StoreExists == storeState \in {"ready", "closed"}


\* dataStore that keeps the value of a key already present
dataStoreIfAbsent(idx, k, v) == IF idx[k].present THEN idx ELSE [idx EXCEPT ![k] = Present(v)]
\* dataDelete that removes nothing
dataDeleteKeep(idx, k) == idx

\* csmap Store / Delete
dataStore(idx, k, v) == [idx EXCEPT ![k] = Present(v)]
dataDelete(idx, k) == [idx EXCEPT ![k] = Absent]

\* Set without s.mu.Lock(): the Append and the Index update of two callers
\* can interleave
SetUnlocked(t, k, v) ==
    /\ pc[t] = "idle"
    /\ StoreExists
    /\ nops < MaxOps
    /\ nops' = nops + 1
    /\ k # ""
    /\ pc' = [pc EXCEPT ![t] = "append"]
    /\ loc' = [loc EXCEPT ![t].op = "set",
                          ![t].arg = v,
                                    ![t].entry = WALEntry(OperationSet, k, Clone(v, CopyArr(nops + 1)))]
    /\ UNCHANGED <<storeState, data, smu, walVars, file, synced, submitted, history,
                   ncrash, nnew>>
    /\ UNCHANGED kvVars

\* Store.Set (store.go:65-75): key check, clone, entry, s.mu.Lock()
Set(t, k, v) ==
    /\ pc[t] = "idle"
    /\ StoreExists
    /\ nops < MaxOps
    /\ nops' = nops + 1
    /\ IF k = ""
         THEN /\ history' = Append(history, Ret("set", k, v, FALSE, "InvalidKey"))
              /\ UNCHANGED <<smu, pc, loc>>
         ELSE /\ smu = None
              /\ smu' = t
              /\ pc' = [pc EXCEPT ![t] = "append"]
              /\ loc' = [loc EXCEPT ![t].op = "set",
                                    ![t].arg = v,
                                    ![t].entry = WALEntry(OperationSet, k, Clone(v, CopyArr(nops + 1)))]
              /\ UNCHANGED history
    /\ UNCHANGED <<storeState, data, walVars, file, synced, submitted, ncrash, nnew>>
    /\ UNCHANGED kvVars

\* Delete without the key check of store.go:87-89
DeleteNoKeyCheck(t, k) ==
    /\ pc[t] = "idle"
    /\ StoreExists
    /\ nops < MaxOps
    /\ nops' = nops + 1
    /\ smu = None
    /\ smu' = t
    /\ pc' = [pc EXCEPT ![t] = "append"]
    /\ loc' = [loc EXCEPT ![t].op = "delete",
                          ![t].entry = WALEntry(OperationDelete, k, NilSlice)]
    /\ UNCHANGED <<storeState, data, walVars, file, synced, submitted, history, ncrash, nnew>>
    /\ UNCHANGED kvVars

\* Store.Delete (store.go:86-94)
Delete(t, k) ==
    /\ pc[t] = "idle"
    /\ StoreExists
    /\ nops < MaxOps
    /\ nops' = nops + 1
    /\ IF k = ""
         THEN /\ history' = Append(history, Ret("delete", k, NilSlice, FALSE, "InvalidKey"))
              /\ UNCHANGED <<smu, pc, loc>>
         ELSE /\ smu = None
              /\ smu' = t
              /\ pc' = [pc EXCEPT ![t] = "append"]
              /\ loc' = [loc EXCEPT ![t].op = "delete",
                                    ![t].entry = WALEntry(OperationDelete, k, NilSlice)]
              /\ UNCHANGED history
    /\ UNCHANGED <<storeState, data, walVars, file, synced, submitted, ncrash, nnew>>
    /\ UNCHANGED kvVars

\* WAL.Append (wal.go:96-106).  The send on flushChan is a blocking send
\* made while w.mu is held: with a signal already queued the appender parks
\* in "send" and keeps the mutex.
WALAppend(t) ==
    /\ pc[t] = "append"
    /\ mu = None
    /\ activeBuffer' = Append(activeBuffer, loc[t].entry)
    /\ submitted' = Append(submitted, loc[t].entry)
    /\ IF Len(activeBuffer') >= bufferSize
         THEN IF flushChan = 0
                THEN /\ flushChan' = 1
                     /\ pc' = [pc EXCEPT ![t] = "apply"]
                     /\ UNCHANGED mu
                ELSE /\ mu' = t
                     /\ pc' = [pc EXCEPT ![t] = "send"]
                     /\ UNCHANGED flushChan
         ELSE /\ pc' = [pc EXCEPT ![t] = "apply"]
              /\ UNCHANGED <<mu, flushChan>>
    /\ UNCHANGED <<storeState, data, smu, pendingBuffer, flushMu, doneChan, ticker,
                   writer, fileClosed, file, synced, loc, history, nops, ncrash, nnew>>
    /\ UNCHANGED kvVars

\* wal.go:102 completing once the worker has taken the queued signal
WALAppendSend(t) ==
    /\ pc[t] = "send"
    /\ flushChan = 0
    /\ flushChan' = 1
    /\ mu' = None
    /\ pc' = [pc EXCEPT ![t] = "apply"]
    /\ UNCHANGED <<storeState, data, smu, activeBuffer, pendingBuffer, flushMu,
                   doneChan, ticker, writer, fileClosed, file, synced, loc, histVars>>
    /\ UNCHANGED kvVars

\* store.go:81-82 and 100-101: the Index update, then the deferred unlock
\* and the return
StoreApply(t) ==
    /\ pc[t] = "apply"
    /\ LET e == loc[t].entry
       IN  IF loc[t].op = "set"
             THEN /\ data' = dataStore(data, e.Key, e.Value)
                  /\ history' = Append(history, Ret("set", e.Key, loc[t].arg, FALSE, "nil"))
             ELSE /\ data' = dataDelete(data, e.Key)
                  /\ history' = Append(history,
                        Ret("delete", e.Key, NilSlice, data[e.Key].present, "nil"))
    /\ smu' = None
    /\ pc' = [pc EXCEPT ![t] = "idle"]
    /\ loc' = [loc EXCEPT ![t] = NoLoc]
    /\ UNCHANGED <<storeState, walVars, file, synced, submitted, nops, ncrash, nnew>>
    /\ UNCHANGED kvVars

\* Store.Get that takes s.mu first, as Set and Delete do
StoreGetLocked(t, k) ==
    /\ pc[t] = "idle"
    /\ StoreExists
    /\ smu = None
    /\ nops < MaxOps
    /\ nops' = nops + 1
    /\ LET g == Get(data, k, CopyArr(nops + 1))
       IN  history' = Append(history, Ret("get", k, g.value, g.ok, "nil"))
    /\ UNCHANGED <<storeState, data, smu, walVars, file, synced, pc, loc, submitted,
                   ncrash, nnew>>
    /\ UNCHANGED kvVars

\* Store.Get as a call (store.go:54-62): lock-free Load, then bytes.Clone.
\* The record of the call keeps the slice handed to the caller; existed
\* holds the second result.
StoreGet(t, k) ==
    /\ pc[t] = "idle"
    /\ StoreExists
    /\ nops < MaxOps
    /\ nops' = nops + 1
    /\ LET g == Get(data, k, CopyArr(nops + 1))
       IN  history' = Append(history, Ret("get", k, g.value, g.ok, "nil"))
    /\ UNCHANGED <<storeState, data, smu, walVars, file, synced, pc, loc, submitted,
                   ncrash, nnew>>
    /\ UNCHANGED kvVars

\* the arrays the callers hold: the buffers they passed to Set and the
\* slices Get returned to them
HeldArrays == {history[i].val.arr : i \in 1..Len(history)} \ {0}

\* a write through a slice over one of the arrays of A reaches every slice
\* over that array
scribble(x, A) ==
    IF x.arr \in A /\ x.arr # 0 THEN [x EXCEPT !.b = [i \in 1..Len(x.b) |-> 255]] ELSE x
scribbleAll(es, A) == [i \in 1..Len(es) |-> [es[i] EXCEPT !.Value = scribble(@, A)]]

\* a caller overwrites buffers it holds after the calls have returned
\* (store_test.go:80-88).  The records of the calls keep the bytes the
\* calls saw.
MutateBuffer(t, A) ==
    /\ pc[t] = "idle"
    /\ A # {} /\ A \subseteq HeldArrays
    /\ nops < MaxOps
    /\ nops' = nops + 1
    /\ data' = [k \in Keys |-> [data[k] EXCEPT !.val = scribble(@, A)]]
    /\ activeBuffer' = scribbleAll(activeBuffer, A)
    /\ pendingBuffer' = scribbleAll(pendingBuffer, A)
    /\ loc' = [u \in Threads |->
                 [loc[u] EXCEPT !.entry.Value = scribble(@, A),
                                !.rng = scribbleAll(@, A),
                                !.res = scribbleAll(@, A),
                                !.ents = scribbleAll(@, A)]]
    /\ history' = Append(history, Ret("write", "", NilSlice, FALSE, "nil"))
    /\ UNCHANGED <<storeState, smu, mu, flushMu, flushChan, doneChan, ticker, writer,
                   fileClosed, file, synced, pc, submitted, ncrash, nnew>>
    /\ UNCHANGED kvVars

(***************************************************************************)
(* New, Recover, ReadAll, Close.                                           *)
(***************************************************************************)
\* store.New (store.go:20-31) with NewWAL (wal.go:64-94): a new WAL and a
\* new worker on the file at the same path, then Recover
New(t) ==
    /\ storeState \in {"none", "closed", "failed"}
    /\ \A c \in Callers : pc[c] = "idle"
    /\ pc[Worker] = "exited"
    /\ nnew < MaxNew
    /\ nnew' = nnew + 1
    /\ storeState' = "init"
    /\ data' = EmptyIndex
    /\ smu' = None
    /\ activeBuffer' = <<>>
    /\ pendingBuffer' = <<>>
    /\ mu' = None
    /\ flushMu' = None
    /\ flushChan' = 0
    /\ doneChan' = "open"
    /\ ticker' = "running"
    /\ writer' = EmptyWriter
    /\ fileClosed' = FALSE
    /\ pc' = [pc EXCEPT ![Worker] = "select", ![t] = "fSwap"]
    /\ loc' = [loc EXCEPT ![t] = [NoLoc EXCEPT !.op = "new", !.cont = "scan"]]
    /\ UNCHANGED <<file, synced, submitted, history, nops, ncrash>>
    /\ UNCHANGED kvVars

\* the entries whose Append has returned: all that were taken, but the one
\* of an appender parked in its send
returned ==
    IF \E c \in Callers : pc[c] = "send"
      THEN SubSeq(submitted, 1, Len(submitted) - 1)
      ELSE submitted

\* Store.Recover called on a Ready Store (store.go:40-41)
Recover(t) ==
    /\ pc[t] = "idle"
    /\ storeState = "ready"
    /\ nops < MaxOps
    /\ nops' = nops + 1
    /\ pc' = [pc EXCEPT ![t] = "fSwap"]
    /\ loc' = [loc EXCEPT ![t] = [NoLoc EXCEPT !.op = "recover", !.cont = "scan",
                                                !.seen = returned]]
    /\ UNCHANGED <<storeState, data, smu, walVars, file, synced, submitted, history, ncrash, nnew>>
    /\ UNCHANGED kvVars

\* the frame at which the scan of items stops with an error, 0 when it
\* reaches the end
scanStop(items) ==
    LET bad == {i \in 1..Len(items) : scanFromStart(SubSeq(items, 1, i), <<>>).err # "nil"}
    IN  IF bad = {} THEN 0 ELSE CHOOSE i \in bad : \A j \in bad : i <= j

\* where ReadAll leaves the offset of the handle: at the end of the file
\* after the Seek of wal.go:174; on an error, wherever the bufio.Reader had
\* read to, which is at or after the frame it stopped at
offsetsAfterScan(items) ==
    IF scanStop(items) = 0 THEN {Len(items)} ELSE scanStop(items)..Len(items)

\* WAL.ReadAll, wal.go:110-114: w.mu.Lock() and Seek(0, io.SeekStart),
\* taken as a step of its own: a flush cycle of another goroutine holds
\* flushMu, not w.mu, and can write while the scan is under way
ReadAllSeek(t) ==
    /\ pc[t] = "scan"
    /\ mu = None
    /\ mu' = t
    /\ writer' = [writer EXCEPT !.off = 0]
    /\ pc' = [pc EXCEPT ![t] = "scanning"]
    /\ UNCHANGED <<storeState, data, smu, activeBuffer, pendingBuffer, flushMu, flushChan,
                   doneChan, ticker, fileClosed, file, synced, loc, histVars>>
    /\ UNCHANGED kvVars

\* WAL.ReadAll after its flushBuffer (wal.go:110-178): the scan under w.mu,
\* from the Lock or from after the Seek(0).
\* On an error New goes on to wal.Close() (store.go:31-33); Recover wraps
\* the error with %w (store.go:43), which keeps what errors.Is finds.
ReadAll(t) ==
    /\ \/ pc[t] = "scan" /\ mu = None
       \/ pc[t] = "scanning" /\ mu = t
    /\ mu' = None
    /\ \E o \in offsetsAfterScan(file) : writer' = [writer EXCEPT !.off = o]
    /\ LET r == scanFromStart(file, <<>>)
       IN  IF r.err = "nil"
             THEN /\ loc' = [loc EXCEPT ![t].ents = r.entries, ![t].res = r.entries]
                  /\ pc' = [pc EXCEPT ![t] = "replay"]
                  /\ UNCHANGED history
             ELSE IF loc[t].op = "new"
               THEN /\ pc' = [pc EXCEPT ![t] = "close"]
                    /\ loc' = [loc EXCEPT ![t].res = r.entries, ![t].err = r.err]
                    /\ UNCHANGED history
               ELSE /\ pc' = [pc EXCEPT ![t] = "idle"]
                    /\ loc' = [loc EXCEPT ![t] = NoLoc]
                    /\ history' = Append(history, Ret("recover", "", NilSlice, FALSE, r.err))
    /\ UNCHANGED <<storeState, data, smu, activeBuffer, pendingBuffer, flushMu, flushChan,
                   doneChan, ticker, fileClosed, file, synced, submitted, nops, ncrash, nnew>>
    /\ UNCHANGED kvVars

\* Store.Recover, the loop of store.go:46-48, one entry per step
RecoverApply(t) ==
    /\ pc[t] = "replay"
    /\ loc[t].ents # <<>>
    /\ data' = applyEntry(data, Head(loc[t].ents))
    /\ loc' = [loc EXCEPT ![t].ents = Tail(loc[t].ents)]
    /\ UNCHANGED <<storeState, smu, walVars, file, synced, pc, histVars>>
    /\ UNCHANGED kvVars

\* store.go:50 and, for New, store.go:36
RecoverReturn(t) ==
    /\ pc[t] = "replay"
    /\ loc[t].ents = <<>>
    /\ storeState' = IF loc[t].op = "new" THEN "ready" ELSE storeState
    /\ history' = Append(history, Ret(loc[t].op, "", NilSlice, FALSE, "nil"))
    /\ pc' = [pc EXCEPT ![t] = "idle"]
    /\ loc' = [loc EXCEPT ![t] = NoLoc]
    /\ UNCHANGED <<data, smu, walVars, file, synced, submitted, nops, ncrash, nnew>>
    /\ UNCHANGED kvVars

\* wal.go:182-183: ticker.Stop(); close(w.doneChan).  A tick sent before
\* Stop may still sit in the ticker channel.
closeBegin(t, stale) ==
    /\ doneChan = "open"
    /\ ticker' = IF stale THEN "stale" ELSE "stopped"
    /\ doneChan' = "closed"
    /\ pc' = [pc EXCEPT ![t] = "wait"]

\* Store.Close (store.go:105-107) entering WAL.Close; seen (history) keeps
\* the entries whose Append had returned when Close was called
Close(t, stale) ==
    /\ pc[t] = "idle"
    /\ storeState = "ready"
    /\ closeBegin(t, stale)
    /\ loc' = [loc EXCEPT ![t] = [NoLoc EXCEPT !.op = "close", !.seen = returned]]
    /\ UNCHANGED <<storeState, data, smu, activeBuffer, pendingBuffer, mu, flushMu,
                   flushChan, writer, fileClosed, file, synced, histVars>>
    /\ UNCHANGED kvVars

\* a failed New that returns the error without wal.Close()
NewFailReturn(t, stale) ==
    /\ pc[t] = "close"
    /\ storeState' = "failed"
    /\ history' = Append(history, Ret("new", "", NilSlice, FALSE, loc[t].err))
    /\ pc' = [pc EXCEPT ![t] = "idle"]
    /\ loc' = [loc EXCEPT ![t] = NoLoc]
    /\ UNCHANGED <<data, smu, walVars, file, synced, submitted, nops, ncrash, nnew>>
    /\ UNCHANGED kvVars

\* wal.Close() of a failed New (store.go:32)
NewFailClose(t, stale) ==
    /\ pc[t] = "close"
    /\ closeBegin(t, stale)
    /\ UNCHANGED <<storeState, data, smu, activeBuffer, pendingBuffer, mu, flushMu,
                   flushChan, writer, fileClosed, file, synced, loc, histVars>>
    /\ UNCHANGED kvVars

\* Close that goes on to its flushBuffer without w.wg.Wait()
CloseNoWait(t) ==
    /\ pc[t] = "wait"
    /\ pc' = [pc EXCEPT ![t] = "fSwap"]
    /\ loc' = [loc EXCEPT ![t].cont = "closeFile"]
    /\ UNCHANGED <<storeState, data, smu, walVars, file, synced, histVars>>
    /\ UNCHANGED kvVars

\* wal.go:184-185: w.wg.Wait() returns when the worker has returned
CloseWait(t) ==
    /\ pc[t] = "wait"
    /\ pc[Worker] = "exited"
    /\ pc' = [pc EXCEPT ![t] = "fSwap"]
    /\ loc' = [loc EXCEPT ![t].cont = "closeFile"]
    /\ UNCHANGED <<storeState, data, smu, walVars, file, synced, histVars>>
    /\ UNCHANGED kvVars

\* wal.go:186: file.Close()
CloseFile(t) ==
    /\ pc[t] = "closeFile"
    /\ fileClosed' = TRUE
    /\ storeState' = IF loc[t].op = "new" THEN "failed" ELSE "closed"
    /\ history' = Append(history, Ret(loc[t].op, "", NilSlice, FALSE,
                                      IF loc[t].op = "new" THEN loc[t].err ELSE "nil"))
    /\ pc' = [pc EXCEPT ![t] = "idle"]
    /\ loc' = [loc EXCEPT ![t] = NoLoc]
    /\ UNCHANGED <<data, smu, activeBuffer, pendingBuffer, mu, flushMu, flushChan,
                   doneChan, ticker, writer, file, synced, submitted, nops, ncrash, nnew>>
    /\ UNCHANGED kvVars

\* Store.Close on a Store that is Closed (store.go:105-107, wal.go:182-183):
\* ticker.Stop() is harmless, close(w.doneChan) on the closed channel
\* panics, and nothing recovers the panic: the process dies
ClosePanic(t) ==
    /\ pc[t] = "idle"
    /\ storeState = "closed"
    /\ doneChan = "closed"
    /\ storeState' = "panicked"
    /\ history' = Append(history, Ret("close", "", NilSlice, FALSE, "panic"))
    /\ UNCHANGED <<data, smu, walVars, file, synced, pc, loc, submitted, nops, ncrash, nnew>>
    /\ UNCHANGED kvVars

\* the process is killed: memory is gone, the file keeps what was written
Crash ==
    /\ storeState \in {"init", "ready"}
    /\ ncrash < MaxCrash
    /\ ncrash' = ncrash + 1
    /\ storeState' = "none"
    /\ data' = EmptyIndex
    /\ smu' = None
    /\ activeBuffer' = <<>>
    /\ pendingBuffer' = <<>>
    /\ mu' = None
    /\ flushMu' = None
    /\ flushChan' = 0
    /\ doneChan' = "open"
    /\ ticker' = "stopped"
    /\ writer' = EmptyWriter
    /\ fileClosed' = TRUE
    /\ pc' = [t \in Threads |-> IF t = Worker THEN "exited" ELSE "idle"]
    /\ loc' = [t \in Threads |-> NoLoc]
    /\ UNCHANGED <<file, synced, submitted, history, nops, nnew>>
    /\ UNCHANGED kvVars

(***************************************************************************)
(* The synchronous WAL (wal.go:253-417): JSON payloads, no checksum, every *)
(* Append flushed and synced before it returns.  It has a mutex, a file    *)
(* and a bufio.Writer, no buffers and no worker.                           *)
(***************************************************************************)
\* json.Marshal(entry): "value" is omitempty, base64 when present
jsonEncode(e) == [Type |-> e.Type, Key |-> e.Key, Value |-> e.Value.b]
\* json.Unmarshal(payload, &entry): a missing "value" leaves Value nil
jsonDecode(p) ==
    WALEntry(p.Type, p.Key, IF p.Value = <<>> THEN NilSlice ELSE Bytes(p.Value))
\* json.Unmarshal returns nil
jsonDecodable(p) == p # BadPayload
\* len of {"type":"..","key":".."} plus ,"value":".." with 4 base64
\* characters for every 3 bytes
jsonLen(p) ==
    20 + StrLen(p.Type) + StrLen(p.Key)
       + (IF p.Value = <<>> THEN 0 ELSE 11 + 4 * ((Len(p.Value) + 2) \div 3))
\* [4-byte length][payload] (wal.go:329-337)
SyncFrame(e) ==
    LET p == jsonEncode(e)
    IN  [length |-> jsonLen(p), payload |-> p]

\* WAL.ReadAll of the synchronous WAL, the scan loop (wal.go:366-395)
RECURSIVE scanSync(_, _)
scanSync(items, acc) ==
    IF items = <<>> THEN [entries |-> acc, err |-> "nil"]
    ELSE LET it == Head(items)
             f == it.frame
         IN  IF it.cut = "partLen" THEN [entries |-> <<>>, err |-> "ErrCorruptWAL"]
             ELSE IF f.length = 0 THEN [entries |-> <<>>, err |-> "ErrCorruptWAL"]
             ELSE IF it.cut # "full" THEN [entries |-> <<>>, err |-> "ErrCorruptWAL"]
             ELSE IF ~jsonDecodable(f.payload)
                  THEN [entries |-> <<>>, err |-> "DecodeError"]
             ELSE scanSync(Tail(items), Append(acc, jsonDecode(f.payload)))

\* what the synchronous WAL does not have
notSyncVars == <<storeState, data, smu, activeBuffer, pendingBuffer, flushMu,
                 flushChan, doneChan, ticker, synced, submitted, kvVars>>

\* the entries whose Append has returned nil, in the order of the returns
AckedEntries(h) ==
    LET ix == {i \in 1..Len(h) : h[i].op = "append" /\ h[i].err = "nil"}
        nth[n \in 0..Len(h)] ==
            IF n = 0 THEN <<>>
            ELSE IF n \in ix
                   THEN Append(nth[n - 1], WALEntry(h[n].existed, h[n].key, h[n].val))
                 ELSE nth[n - 1]
    IN  nth[Len(h)]

\* NewWAL of the synchronous WAL (wal.go:300-317)
SyncNewWAL ==
    /\ fileClosed
    /\ nnew < MaxNew
    /\ nnew' = nnew + 1
    /\ fileClosed' = FALSE
    /\ writer' = EmptyWriter
    /\ UNCHANGED <<mu, file, pc, loc, history, nops, ncrash, notSyncVars>>

\* WAL.Append (wal.go:320-330): Lock, json.Marshal, the length prefix
SyncAppend(t, e) ==
    /\ ~fileClosed
    /\ pc[t] = "idle"
    /\ mu = None
    /\ nops < MaxOps
    /\ nops' = nops + 1
    /\ mu' = t
    /\ pc' = [pc EXCEPT ![t] = "sWrite"]
    /\ loc' = [loc EXCEPT ![t] = [NoLoc EXCEPT !.op = "append", !.entry = e]]
    /\ UNCHANGED <<writer, fileClosed, file, history, ncrash, nnew, notSyncVars>>

\* the deferred Unlock and the return of Append
syncReturn(t, err) ==
    /\ mu' = None
    /\ pc' = [pc EXCEPT ![t] = "idle"]
    /\ loc' = [loc EXCEPT ![t] = [NoLoc EXCEPT !.err = err]]
    /\ history' = Append(history,
            [Ret("append", loc[t].entry.Key, loc[t].entry.Value, FALSE, err)
                EXCEPT !.existed = loc[t].entry.Type])

\* the two Write calls (wal.go:332-337).  s = "partPayload": the payload
\* does not fit the 4096-byte writer buffer, so Write hands the prefix and
\* the head of the payload to the file; ok = that write succeeds
SyncAppendWrite(t, s, ok) ==
    /\ pc[t] = "sWrite"
    /\ s = "none" => ok
    /\ LET r == writeFrame(writer, file, ~ok, SyncFrame(loc[t].entry), s)
       IN  /\ writer' = r.writer
           /\ file' = r.file
           /\ IF r.writer.err
                THEN syncReturn(t, "WriteError")
              ELSE /\ pc' = [pc EXCEPT ![t] = "sFlush"]
                   /\ UNCHANGED <<mu, loc, history>>
    /\ UNCHANGED <<fileClosed, nops, ncrash, nnew, notSyncVars>>

\* writer.Flush() and file.Sync() (wal.go:338-346); o = "flushFail": the
\* write fails, "syncFail": the write succeeds and the fsync fails
SyncAppendFlush(t, o) ==
    /\ pc[t] = "sFlush"
    /\ LET r == flushSync(writer, file, FALSE, o # "flushFail")
       IN  /\ writer' = r.writer
           /\ file' = r.file
           /\ syncReturn(t, IF r.writer.err THEN "FlushError"
                            ELSE IF o = "syncFail" THEN "SyncError" ELSE "nil")
    /\ UNCHANGED <<fileClosed, nops, ncrash, nnew, notSyncVars>>

\* WAL.ReadAll (wal.go:349-402): under the mutex, Flush, Seek(0), the scan
SyncReadAll(t) ==
    /\ ~fileClosed
    /\ pc[t] = "idle"
    /\ mu = None
    /\ nops < MaxOps
    /\ nops' = nops + 1
    /\ LET r == IF writer.err THEN [entries |-> <<>>, err |-> "FlushError"]
                ELSE scanSync(file, <<>>)
       IN  /\ loc' = [loc EXCEPT ![t] = [NoLoc EXCEPT !.op = "readall",
                          !.res = r.entries, !.err = r.err,
                          !.seen = AckedEntries(history)]]
           /\ history' = Append(history, Ret("readall", "", NilSlice, FALSE, r.err))
           /\ writer' = IF writer.err THEN writer ELSE [writer EXCEPT !.off = Len(file)]
    /\ UNCHANGED <<mu, fileClosed, file, pc, ncrash, nnew, notSyncVars>>

\* WAL.Close (wal.go:405-416): a failed Flush or Sync returns before
\* file.Close
SyncClose(t, ok) ==
    /\ ~fileClosed
    /\ pc[t] = "idle"
    /\ mu = None
    /\ nops < MaxOps
    /\ nops' = nops + 1
    /\ fileClosed' = (~writer.err /\ ok)
    /\ history' = Append(history, Ret("close", "", NilSlice, FALSE,
                      IF writer.err THEN "FlushError"
                      ELSE IF ok THEN "nil" ELSE "SyncError"))
    /\ UNCHANGED <<mu, writer, file, pc, loc, ncrash, nnew, notSyncVars>>

\* the process is killed: the writer buffer is gone, the file keeps what
\* was written to it
SyncCrash ==
    /\ ~fileClosed
    /\ ncrash < MaxCrash
    /\ ncrash' = ncrash + 1
    /\ fileClosed' = TRUE
    /\ writer' = EmptyWriter
    /\ mu' = None
    /\ pc' = [t \in Threads |-> IF t = Worker THEN "exited" ELSE "idle"]
    /\ loc' = [t \in Threads |-> NoLoc]
    /\ history' = Append(history, Ret("crash", "", NilSlice, FALSE, "nil"))
    /\ UNCHANGED <<file, nops, nnew, notSyncVars>>

(***************************************************************************)
(* The Store over the synchronous WAL, its calls taken whole: one caller.  *)
(* The Store exists while the handle of its WAL is open.                   *)
(***************************************************************************)
\* WAL.Append of the synchronous WAL as one call (wal.go:320-346): what it
\* leaves in the writer and the file, and what it returns.  s: whether the
\* payload spills; o: which of its steps fails, if any
syncAppended(w, fl, e, s, o) ==
    IF w.err THEN [writer |-> w, file |-> fl, err |-> "WriteError"]
    ELSE LET r1 == writeFrame(w, fl, o = "writeFail", SyncFrame(e), s)
             r2 == flushSync(r1.writer, r1.file, FALSE, o # "flushFail")
         IN  IF r1.writer.err
               THEN [writer |-> r1.writer, file |-> r1.file, err |-> "WriteError"]
             ELSE [writer |-> r2.writer, file |-> r2.file,
                   err |-> IF r2.writer.err THEN "FlushError"
                           ELSE IF o = "syncFail" THEN "SyncError" ELSE "nil"]

\* the I/O outcomes of one Append: a Write can fail only when it spills
AppendOutcomes ==
    {<<"none", o>> : o \in {"ok", "flushFail", "syncFail"}}
      \cup {<<"partPayload", o>> : o \in {"ok", "writeFail", "flushFail", "syncFail"}}

\* what the Store over the synchronous WAL does not have
notSyncStoreVars == <<storeState, smu, activeBuffer, pendingBuffer, flushMu, flushChan,
                      doneChan, ticker, synced, submitted, kvVars>>

\* New (store.go:20-37) over NewWAL and ReadAll of the synchronous WAL
SyncStoreNew(t) ==
    /\ fileClosed
    /\ pc[t] = "idle"
    /\ nnew < MaxNew
    /\ nnew' = nnew + 1
    /\ LET r == scanSync(file, <<>>)
       IN  /\ fileClosed' = (r.err # "nil")
           /\ data' = IF r.err = "nil" THEN applyAll(EmptyIndex, r.entries) ELSE data
           /\ writer' = [EmptyWriter EXCEPT !.off = IF r.err = "nil" THEN Len(file) ELSE 0]
           /\ loc' = [loc EXCEPT ![t] = [NoLoc EXCEPT !.op = "new", !.res = r.entries,
                                                      !.err = r.err]]
           /\ history' = Append(history, Ret("new", "", NilSlice, FALSE, r.err))
    /\ UNCHANGED <<mu, file, pc, nops, ncrash, notSyncStoreVars>>

\* Store.Recover (store.go:40-51) on the open Store
SyncStoreRecover(t) ==
    /\ ~fileClosed
    /\ pc[t] = "idle"
    /\ mu = None
    /\ nops < MaxOps
    /\ nops' = nops + 1
    /\ LET r == IF writer.err THEN [entries |-> <<>>, err |-> "FlushError"]
                ELSE scanSync(file, <<>>)
       IN  /\ data' = IF r.err = "nil" THEN applyAll(data, r.entries) ELSE data
           /\ writer' = IF writer.err THEN writer ELSE [writer EXCEPT !.off = Len(file)]
           /\ loc' = [loc EXCEPT ![t] = [NoLoc EXCEPT !.op = "recover", !.res = r.entries,
                                                      !.err = r.err]]
           /\ history' = Append(history, Ret("recover", "", NilSlice, FALSE, r.err))
    /\ UNCHANGED <<mu, fileClosed, file, pc, ncrash, nnew, notSyncStoreVars>>

\* Store.Set (store.go:65-83) over the synchronous WAL
SyncStoreSet(t, k, v, s, o) ==
    /\ ~fileClosed
    /\ pc[t] = "idle"
    /\ smu = None /\ mu = None
    /\ nops < MaxOps
    /\ nops' = nops + 1
    /\ IF k = ""
         THEN /\ history' = Append(history, Ret("set", k, v, FALSE, "InvalidKey"))
              /\ UNCHANGED <<data, writer, file>>
         ELSE LET r == syncAppended(writer, file,
                          WALEntry(OperationSet, k, Clone(v, CopyArr(nops + 1))), s, o)
              IN  /\ writer' = r.writer
                  /\ file' = r.file
                  /\ data' = IF r.err = "nil"
                                THEN dataStore(data, k, Clone(v, CopyArr(nops + 1)))
                              ELSE data
                  /\ history' = Append(history, Ret("set", k, v, FALSE, r.err))
    /\ UNCHANGED <<mu, fileClosed, pc, loc, ncrash, nnew, notSyncStoreVars>>

\* Store.Delete (store.go:86-102) over the synchronous WAL
SyncStoreDelete(t, k, s, o) ==
    /\ ~fileClosed
    /\ pc[t] = "idle"
    /\ smu = None /\ mu = None
    /\ nops < MaxOps
    /\ nops' = nops + 1
    /\ IF k = ""
         THEN /\ history' = Append(history, Ret("delete", k, NilSlice, FALSE, "InvalidKey"))
              /\ UNCHANGED <<data, writer, file>>
         ELSE LET r == syncAppended(writer, file,
                          WALEntry(OperationDelete, k, NilSlice), s, o)
              IN  /\ writer' = r.writer
                  /\ file' = r.file
                  /\ data' = IF r.err = "nil" THEN dataDelete(data, k) ELSE data
                  /\ history' = Append(history,
                        Ret("delete", k, NilSlice, r.err = "nil" /\ data[k].present, r.err))
    /\ UNCHANGED <<mu, fileClosed, pc, loc, ncrash, nnew, notSyncStoreVars>>

(***************************************************************************)
(* The calls of the alternate kvstore.                                     *)
(***************************************************************************)
\* KvStore.Set(k, v) for a string or number v (part_003:43-51)
KvSet(k, v) ==
    /\ nops < MaxOps
    /\ nops' = nops + 1
    /\ sm' = [sm EXCEPT ![k] = KvPresent(jsonMarshal(v))]
    /\ history' = Append(history, Ret("kvset", k, NilSlice, FALSE, "nil"))
    /\ UNCHANGED <<snapshot, storeVars>>

\* KvStore.Delete (part_003:66-68)
KvDelete(k) ==
    /\ nops < MaxOps
    /\ nops' = nops + 1
    /\ sm' = [sm EXCEPT ![k] = KvAbsent]
    /\ history' = Append(history, Ret("kvdelete", k, NilSlice, sm[k].present, "nil"))
    /\ UNCHANGED <<snapshot, storeVars>>

\* KvStore.SaveToDisk (part_003:70-72, part_005:22-37)
SaveToDisk ==
    /\ nops < MaxOps
    /\ nops' = nops + 1
    /\ snapshot' = [exists |-> TRUE, pairs |-> marshalBinary(sm)]
    /\ history' = Append(history, Ret("save", "", NilSlice, FALSE, "nil"))
    /\ UNCHANGED <<sm, storeVars>>

\* KvStore.LoadFromDisk (part_003:74-76)
LoadFromDisk ==
    /\ nops < MaxOps
    /\ nops' = nops + 1
    /\ sm' = load(sm, snapshot)
    /\ history' = Append(history, Ret("load", "", NilSlice, snapshot.exists, "nil"))
    /\ UNCHANGED <<snapshot, storeVars>>

\* CreateStore (part_003:18-41) on the persistence directory in use: an
\* empty map, then load
CreateStore ==
    /\ nops < MaxOps
    /\ nops' = nops + 1
    /\ sm' = load(EmptyKv, snapshot)
    /\ history' = Append(history, Ret("create", "", NilSlice, snapshot.exists, "nil"))
    /\ UNCHANGED <<snapshot, storeVars>>

(***************************************************************************)
(* Specifications.                                                         *)
(***************************************************************************)
\* the value a caller writes in the concurrent specifications: one per
\* caller, so that the Index tells whose Set was applied last
ValueOf(t) == IF t = "c1" THEN Bytes(<<1>>) ELSE Bytes(<<2>>)

\* a value no earlier call has written, so that a frame tells its entry
FreshValue == Bytes(<<nops + 1>>)

\* two callers issuing Set and Delete, with valid and with empty keys, on
\* one Ready Store, the worker flushing in the background; no kill, no I/O
\* error
Next ==
    \/ \E t \in Callers : New(t)
    \/ \E t \in Callers : ReadAll(t)
    \/ \E t \in Callers : RecoverReturn(t)
    \/ \E t \in Callers, k \in AnyKey : Set(t, k, ValueOf(t))
    \/ \E t \in Callers, k \in AnyKey : Delete(t, k)
    \/ \E t \in Callers : WALAppend(t)
    \/ \E t \in Callers : WALAppendSend(t)
    \/ \E t \in Callers : StoreApply(t)
    \/ \E t \in Threads : swapBuffers(t)
    \/ \E t \in Threads : flushLock(t)
    \/ \E t \in Threads : flushSyncStep(t, TRUE)
    \/ \E t \in Threads : flushClear(t)
    \/ asyncFlushTick
    \/ asyncFlushSignal

Spec == Init /\ [][Next]_vars

\* one caller: Set and Delete in sequence on the Ready Store, Close, and
\* New again on the same path; no kill, no I/O error
NextSeq ==
    \/ New("c1")
    \/ ReadAll("c1")
    \/ RecoverApply("c1")
    \/ RecoverReturn("c1")
    \/ \E k \in Keys, v \in Values : storeState = "ready" /\ Set("c1", k, v)
    \/ \E k \in Keys : storeState = "ready" /\ Delete("c1", k)
    \/ WALAppend("c1")
    \/ WALAppendSend("c1")
    \/ StoreApply("c1")
    \/ \E stale \in BOOLEAN : Close("c1", stale)
    \/ CloseWait("c1")
    \/ CloseFile("c1")
    \/ \E t \in {"c1", Worker} : swapBuffers(t)
    \/ \E t \in {"c1", Worker} : flushLock(t)
    \/ \E t \in {"c1", Worker} : flushSyncStep(t, TRUE)
    \/ \E t \in {"c1", Worker} : flushClear(t)
    \/ asyncFlushTick
    \/ asyncFlushSignal
    \/ asyncFlushDone

SpecSeq == Init /\ [][NextSeq]_vars

\* one caller, and the process killed at any point and started again; a
\* Write may spill the writer buffer in the middle of a frame
NextCrash ==
    \/ New("c1")
    \/ ReadAll("c1")
    \/ RecoverApply("c1")
    \/ RecoverReturn("c1")
    \/ \E stale \in BOOLEAN : NewFailClose("c1", stale)
    \/ CloseWait("c1")
    \/ CloseFile("c1")
    \/ \E k \in Keys : Set("c1", k, FreshValue)
    \/ \E k \in Keys : Delete("c1", k)
    \/ WALAppend("c1")
    \/ WALAppendSend("c1")
    \/ StoreApply("c1")
    \/ \E t \in {"c1", Worker} : swapBuffers(t)
    \/ \E t \in {"c1", Worker} : flushLock(t)
    \/ \E n \in 1..MaxOps, s \in SpillKinds : flushWrite(Worker, n, s)
    \/ \E t \in {"c1", Worker} : flushSyncStep(t, TRUE)
    \/ \E t \in {"c1", Worker} : flushClear(t)
    \/ asyncFlushTick
    \/ asyncFlushSignal
    \/ asyncFlushDone
    \/ Crash

SpecCrash == Init /\ [][NextCrash]_vars

\* c1 appends through Set, c2 calls Recover (and so ReadAll) on the Ready
\* Store, the worker flushes in the background
NextRead ==
    \/ New("c1")
    \/ \E t \in Callers : ReadAll(t)
    \/ RecoverApply("c2")
    \/ \E t \in Callers : RecoverReturn(t)
    \/ \E k \in Keys : Set("c1", k, FreshValue)
    \/ WALAppend("c1")
    \/ WALAppendSend("c1")
    \/ StoreApply("c1")
    \/ Recover("c2")
    \/ \E t \in Threads : swapBuffers(t)
    \/ \E t \in Threads : flushLock(t)
    \/ \E t \in Threads : flushSyncStep(t, TRUE)
    \/ \E t \in Threads : flushClear(t)
    \/ asyncFlushTick
    \/ asyncFlushSignal

SpecRead == Init /\ [][NextRead]_vars

\* one caller; a write of the writer buffer to the file may fail
NextIO ==
    \/ New("c1")
    \/ ReadAll("c1")
    \/ RecoverReturn("c1")
    \/ \E k \in Keys : Set("c1", k, FreshValue)
    \/ \E k \in Keys : Delete("c1", k)
    \/ WALAppend("c1")
    \/ WALAppendSend("c1")
    \/ StoreApply("c1")
    \/ \E t \in {"c1", Worker} : swapBuffers(t)
    \/ \E t \in {"c1", Worker} : flushLock(t)
    \/ \E t \in {"c1", Worker}, ok \in BOOLEAN : flushSyncStep(t, ok)
    \/ \E t \in {"c1", Worker} : flushClear(t)
    \/ asyncFlushTick
    \/ asyncFlushSignal

SpecIO == Init /\ [][NextIO]_vars

\* the buffer a caller passes to Set: its own array, with bytes no earlier
\* call has written
CallerBuffer == [isNil |-> FALSE, b |-> <<nops + 1>>, arr |-> ArgArr(nops + 1)]

\* one caller that keeps the buffers it passed to Set and got from Get and
\* writes into them between calls; Close and New again on the same path
NextAlias ==
    \/ New("c1")
    \/ ReadAll("c1")
    \/ RecoverApply("c1")
    \/ RecoverReturn("c1")
    \/ \E k \in Keys : storeState = "ready" /\ Set("c1", k, CallerBuffer)
    \/ \E k \in Keys : storeState = "ready" /\ StoreGet("c1", k)
    \/ MutateBuffer("c1", HeldArrays)
    \/ WALAppend("c1")
    \/ WALAppendSend("c1")
    \/ StoreApply("c1")
    \/ Close("c1", FALSE)
    \/ CloseWait("c1")
    \/ CloseFile("c1")
    \/ \E t \in {"c1", Worker} : swapBuffers(t)
    \/ \E t \in {"c1", Worker} : flushLock(t)
    \/ \E t \in {"c1", Worker} : flushSyncStep(t, TRUE)
    \/ \E t \in {"c1", Worker} : flushClear(t)
    \/ asyncFlushTick
    \/ asyncFlushSignal
    \/ asyncFlushDone

SpecAlias == Init /\ [][NextAlias]_vars

\* one caller that goes on calling Set, Delete and Close on the Store after
\* Close has returned
NextClosed ==
    \/ storeState = "none" /\ New("c1")
    \/ ReadAll("c1")
    \/ RecoverReturn("c1")
    \/ \E k \in Keys : Set("c1", k, FreshValue)
    \/ \E k \in Keys : Delete("c1", k)
    \/ WALAppend("c1")
    \/ WALAppendSend("c1")
    \/ StoreApply("c1")
    \/ \E stale \in BOOLEAN : Close("c1", stale)
    \/ CloseWait("c1")
    \/ CloseFile("c1")
    \/ ClosePanic("c1")
    \/ \E t \in {"c1", Worker} : swapBuffers(t)
    \/ \E t \in {"c1", Worker} : flushLock(t)
    \/ \E t \in {"c1", Worker} : flushSyncStep(t, TRUE)
    \/ \E t \in {"c1", Worker} : flushClear(t)
    \/ asyncFlushTick
    \/ asyncFlushSignal
    \/ asyncFlushDone

SpecClosed == Init /\ [][NextClosed]_vars

\* c1 closes the Store while c2 is calling Set on it
NextClose ==
    \/ storeState = "none" /\ New("c1")
    \/ ReadAll("c1")
    \/ RecoverReturn("c1")
    \/ \E k \in Keys : storeState = "ready" /\ Set("c2", k, FreshValue)
    \/ WALAppend("c2")
    \/ WALAppendSend("c2")
    \/ StoreApply("c2")
    \/ \E stale \in BOOLEAN : Close("c1", stale)
    \/ CloseWait("c1")
    \/ CloseFile("c1")
    \/ \E t \in {"c1", Worker} : swapBuffers(t)
    \/ \E t \in {"c1", Worker} : flushLock(t)
    \/ \E t \in {"c1", Worker} : flushSyncStep(t, TRUE)
    \/ \E t \in {"c1", Worker} : flushClear(t)
    \/ asyncFlushTick
    \/ asyncFlushSignal
    \/ asyncFlushDone

SpecClose == Init /\ [][NextClose]_vars

\* c1 appends through Set and closes the Store, c2 calls Recover (and so
\* ReadAll, which seeks to offset 0) on the Ready Store, the worker flushes
\* in the background and its cycles may spill in the middle of a frame
NextAppend ==
    \/ New("c1")
    \/ \E t \in Callers : ReadAllSeek(t)
    \/ \E t \in Callers : ReadAll(t)
    \/ RecoverApply("c2")
    \/ \E t \in Callers : RecoverReturn(t)
    \/ storeState = "ready" /\ Set("c1", "a", FreshValue)
    \/ WALAppend("c1")
    \/ WALAppendSend("c1")
    \/ StoreApply("c1")
    \/ Recover("c2")
    \/ \E stale \in BOOLEAN : Close("c1", stale)
    \/ CloseWait("c1")
    \/ CloseFile("c1")
    \/ \E t \in Threads : swapBuffers(t)
    \/ \E t \in Threads : flushLock(t)
    \/ \E t \in Threads, n \in 1..MaxOps : flushWrite(t, n, "hdr")
    \/ \E t \in Threads : flushSyncStep(t, TRUE)
    \/ \E t \in Threads : flushClear(t)
    \/ asyncFlushTick
    \/ asyncFlushSignal
    \/ asyncFlushDone

SpecAppend == Init /\ [][NextAppend]_vars

\* the entry of the Set that InitGet has behind it
FirstEntry == WALEntry(OperationSet, "a", Clone(Bytes(<<0>>), CopyArr(0)))

\* a Ready Store after New on a fresh path and one Set("a", ..) whose entry
\* is still in the active buffer
InitGet ==
    /\ storeState = "ready"
    /\ data = dataStore(EmptyIndex, "a", FirstEntry.Value)
    /\ smu = None
    /\ activeBuffer = <<FirstEntry>>
    /\ pendingBuffer = <<>>
    /\ mu = None
    /\ flushMu = None
    /\ flushChan = 0
    /\ doneChan = "open"
    /\ ticker = "running"
    /\ writer = EmptyWriter
    /\ fileClosed = FALSE
    /\ file = <<>>
    /\ synced = 0
    /\ pc = [t \in Threads |-> IF t = Worker THEN "select" ELSE "idle"]
    /\ loc = [t \in Threads |-> NoLoc]
    /\ submitted = <<FirstEntry>>
    /\ history = <<Ret("new", "", NilSlice, FALSE, "nil"),
                   Ret("set", "a", Bytes(<<0>>), FALSE, "nil")>>
    /\ nops = 0
    /\ ncrash = 0
    /\ nnew = 1
    /\ sm = EmptyKv
    /\ snapshot = NoSnapshot

\* c1 issues Set and Delete, c2 issues Get, the worker flushes in the
\* background
NextGet ==
    \/ \E k \in Keys : Set("c1", k, FreshValue)
    \/ \E k \in Keys : Delete("c1", k)
    \/ WALAppend("c1")
    \/ WALAppendSend("c1")
    \/ StoreApply("c1")
    \/ \E k \in Keys : StoreGet("c2", k)
    \/ swapBuffers(Worker)
    \/ flushLock(Worker)
    \/ flushSyncStep(Worker, TRUE)
    \/ flushClear(Worker)
    \/ asyncFlushTick
    \/ asyncFlushSignal

SpecGet == InitGet /\ [][NextGet]_vars

\* one caller issuing Set on a Ready Store, no Close, no kill, no I/O
\* error
NextLive ==
    \/ New("c1")
    \/ ReadAll("c1")
    \/ RecoverReturn("c1")
    \/ Set("c1", "a", FreshValue)
    \/ WALAppend("c1")
    \/ WALAppendSend("c1")
    \/ StoreApply("c1")
    \/ \E t \in {Worker, "c1"} : swapBuffers(t)
    \/ \E t \in {Worker, "c1"} : flushLock(t)
    \/ \E t \in {Worker, "c1"} : flushSyncStep(t, TRUE)
    \/ \E t \in {Worker, "c1"} : flushClear(t)
    \/ asyncFlushTick
    \/ asyncFlushSignal

\* the Go scheduler runs every goroutine that can run: the worker goroutine
\* started at wal.go:90 and a caller inside a call keep taking their next
\* step whenever it is possible; the ticker of wal.go:86 keeps ticking.
\* A caller need not make a further call.
FairLive ==
    /\ WF_vars(asyncFlushTick)
    /\ WF_vars(asyncFlushSignal)
    /\ \A t \in {Worker, "c1"} :
          /\ WF_vars(swapBuffers(t))
          /\ WF_vars(flushLock(t))
          /\ WF_vars(flushSyncStep(t, TRUE))
          /\ WF_vars(flushClear(t))
    /\ WF_vars(ReadAll("c1"))
    /\ WF_vars(RecoverReturn("c1"))
    /\ WF_vars(WALAppend("c1"))
    /\ WF_vars(WALAppendSend("c1"))
    /\ WF_vars(StoreApply("c1"))

SpecLive == Init /\ [][NextLive]_vars /\ FairLive

\* the synchronous WAL: two callers, spills, I/O failures and one crash
NextSync ==
    \/ SyncNewWAL
    \/ \E t \in Callers, k \in Keys : SyncAppend(t, WALEntry(OperationSet, k, FreshValue))
    \/ \E t \in Callers, k \in Keys : SyncAppend(t, WALEntry(OperationDelete, k, NilSlice))
    \/ \E t \in Callers, s \in {"none", "partPayload"}, ok \in BOOLEAN :
          SyncAppendWrite(t, s, ok)
    \/ \E t \in Callers, o \in {"ok", "flushFail", "syncFail"} : SyncAppendFlush(t, o)
    \/ \E t \in Callers : SyncReadAll(t)
    \/ \E t \in Callers, ok \in BOOLEAN : SyncClose(t, ok)
    \/ SyncCrash

SpecSync == Init /\ [][NextSync]_vars

\* one caller on the Store over the synchronous WAL: New, Set, Delete,
\* Recover and Close, every Append with its possible I/O failures
NextSyncStore ==
    \/ SyncStoreNew("c1")
    \/ SyncStoreRecover("c1")
    \/ \E k \in AnyKey, q \in AppendOutcomes : SyncStoreSet("c1", k, FreshValue, q[1], q[2])
    \/ \E k \in AnyKey, q \in AppendOutcomes : SyncStoreDelete("c1", k, q[1], q[2])
    \/ \E ok \in BOOLEAN : SyncClose("c1", ok)

SpecSyncStore == Init /\ [][NextSyncStore]_vars

\* the alternate kvstore: Set, Delete, SaveToDisk, LoadFromDisk and
\* CreateStore in any order
NextSnapshot ==
    \/ \E k \in Keys, v \in GoValues : KvSet(k, v)
    \/ \E k \in Keys : KvDelete(k)
    \/ SaveToDisk
    \/ LoadFromDisk
    \/ CreateStore

SpecSnapshot == Init /\ [][NextSnapshot]_vars

\* New on a path that holds a log file already, intact or damaged
NextScan ==
    \/ New("c1")
    \/ ReadAll("c1")
    \/ RecoverApply("c1")
    \/ RecoverReturn("c1")
    \/ \E stale \in BOOLEAN : NewFailClose("c1", stale)
    \/ CloseWait("c1")
    \/ CloseFile("c1")
    \/ \E t \in {"c1", Worker} : swapBuffers(t)
    \/ \E t \in {"c1", Worker} : flushLock(t)
    \/ \E t \in {"c1", Worker} : flushSyncStep(t, TRUE)
    \/ \E t \in {"c1", Worker} : flushClear(t)
    \/ asyncFlushTick
    \/ asyncFlushDone

SpecScan == InitScan /\ [][NextScan]_vars


(***************************************************************************)
(* Reference semantics, written over the history of returned calls only.   *)
(***************************************************************************)
IsMutation(r) == r.op \in {"set", "delete"} /\ r.err = "nil"
Mutations(h) == SelectSeq(h, IsMutation)

\* a plain map driven by the calls themselves
RECURSIVE RefMap(_)
RefMap(h) ==
    IF h = <<>> THEN [k \in Keys |-> Absent]
    ELSE LET m == RefMap(SubSeq(h, 1, Len(h) - 1))
             r == h[Len(h)]
         IN  IF ~IsMutation(r) THEN m
             ELSE IF r.op = "set" THEN [m EXCEPT ![r.key] = Present(r.val)]
             ELSE [m EXCEPT ![r.key] = Absent]

\* the most recent returned Set or Delete of k in h, 0 when there is none
LastWrite(h, k) ==
    LET I == {i \in 1..Len(h) : IsMutation(h[i]) /\ h[i].key = k}
    IN  IF I = {} THEN 0 ELSE CHOOSE i \in I : \A j \in I : j <= i

\* Get on idx answers as the map m does
GetAgrees(idx, m) ==
    \A k \in Keys :
        /\ Get(idx, k, 0).ok = m[k].present
        /\ bytesEqual(Get(idx, k, 0).value, m[k].val)

LastRet == IF history = <<>> THEN Ret(None, "", NilSlice, FALSE, "nil")
           ELSE history[Len(history)]
CallersIdle == \A c \in Callers : pc[c] = "idle"
\* the entries of the frames in the file, torn or not
FileEntries == [i \in 1..Len(file) |-> gobDecode(file[i].frame.payload)]
EntriesOf(h) == [i \in 1..Len(h) |-> WALEntry(h[i].op, h[i].key, h[i].val)]

(***************************************************************************)
(* Claims.                                                                 *)
(***************************************************************************)
\* C1: after any sequence of Set/Delete calls, Close and a fresh New on the
\* same path, New succeeds and Get on the reopened Store answers for every
\* key as a plain map to which the same calls were applied.
AppendReplayAgreement ==
    /\ pc["c1"] # "close"
    /\ (storeState = "ready" /\ nnew >= 2 /\ pc["c1"] = "idle" /\ LastRet.op = "new")
          => GetAgrees(data, RefMap(history))

\* a reopened Store that replayed a Set of an empty value, a Delete and a
\* Set that survived
ReopenedAfterMutations ==
    /\ storeState = "ready" /\ nnew = 2 /\ pc["c1"] = "idle" /\ LastRet.op = "new"
    /\ Len(Mutations(history)) = MaxOps
    /\ \E i \in 1..Len(history) : history[i].op = "delete" /\ history[i].existed
    /\ \E k \in Keys : data[k].present

\* C2: every Set/Delete that returned nil before the process was killed is
\* reflected in the Index of the Store that New yields afterwards.
NoAcknowledgedWriteLost ==
    (storeState = "ready" /\ ncrash >= 1 /\ pc["c1"] = "idle" /\ LastRet.op = "new")
        => GetAgrees(data, RefMap(history))

\* C3: the Index shows the effect of a Set/Delete only when the frame of
\* its entry is in the log file.
WriteAhead ==
    LET applied == EntriesOf(Mutations(history))
    IN  \A i \in 1..Len(applied) :
            /\ i <= Len(file)
            /\ file[i] = Item(Frame(applied[i]), "full")

\* C4: after a kill at any point, New yields a Store whose Index is the
\* replay of the file up to its last valid frame, which covers every frame
\* written by a flush cycle that completed before the kill.
RECURSIVE validPrefix(_)
validPrefix(items) ==
    IF items = <<>> \/ Head(items).cut # "full" THEN <<>>
    ELSE <<gobDecode(Head(items).frame.payload)>> \o validPrefix(Tail(items))

CrashRecovery ==
    (ncrash >= 1 /\ storeState \in {"ready", "failed"} /\ pc["c1"] = "idle"
                 /\ LastRet.op = "new")
        => /\ storeState = "ready"
           /\ synced <= Len(validPrefix(file))
           /\ GetAgrees(data, applyAll(EmptyIndex, validPrefix(file)))

\* C5: the frames in the log file are at all times in the order in which
\* their entries were submitted by Append.
SubmitIndex(e) ==
    CHOOSE i \in 1..Len(submitted) :
        /\ submitted[i].Type = e.Type /\ submitted[i].Key = e.Key
        /\ bytesEqual(submitted[i].Value, e.Value)
PersistOrder ==
    \A i, j \in 1..Len(file) :
        i < j => SubmitIndex(FileEntries[i]) <= SubmitIndex(FileEntries[j])

\* C6: ReadAll returns, in submission order, exactly the entries of the
\* Appends that returned before it was called, when no Append ran since.
sameEntries(a, b) ==
    /\ Len(a) = Len(b)
    /\ \A i \in 1..Len(a) :
          /\ a[i].Type = b[i].Type
          /\ a[i].Key = b[i].Key
          /\ bytesEqual(a[i].Value, b[i].Value)

ReadAllSeesSubmitted ==
    \A t \in Callers :
        (pc[t] = "replay" /\ loc[t].op = "recover" /\ submitted = loc[t].seen)
            => sameEntries(loc[t].res, loc[t].seen)

\* C7: the order in which concurrent Set/Delete calls submit their entries
\* to the WAL is the order in which they are applied to the Index: at every
\* point the Index is the replay of the submitted entries, up to the one
\* entry whose call is between its Append and its Index update.
OrderAgreement ==
    LET inFlight == \E c \in Callers : pc[c] \in {"send", "apply"}
        applied == IF inFlight THEN SubSeq(submitted, 1, Len(submitted) - 1)
                   ELSE submitted
    IN  storeState = "ready" => data = applyAll(EmptyIndex, applied)

\* both callers have written the same key, and the later submission won
BothWroteSameKey ==
    /\ storeState = "ready" /\ CallersIdle
    /\ Len(submitted) = MaxOps
    /\ \E i, j \in 1..Len(submitted) :
          /\ i < j
          /\ submitted[i].Key = submitted[j].Key
          /\ submitted[i].Type = OperationSet /\ submitted[j].Type = OperationSet
          /\ submitted[i].Value # submitted[j].Value
          /\ \A l \in (j + 1)..Len(submitted) : submitted[l].Key # submitted[j].Key
          /\ data[submitted[j].Key] = Present(submitted[j].Value)

\* C8: at every quiescent point of a Ready Store the Index is the replay,
\* in file order, of the frames in the log file.
Quiescent ==
    /\ storeState = "ready" /\ CallersIdle
    /\ pc[Worker] = "select"
    /\ activeBuffer = <<>> /\ pendingBuffer = <<>>
    /\ submitted # <<>>

MaterializedView ==
    Quiescent => GetAgrees(data, applyAll(EmptyIndex, FileEntries))

\* C9: on a Ready Store with no call in flight, Get(k) returns the value of
\* the most recent returned Set(k, v) when no Delete(k) returned after it,
\* and (nil, false) otherwise, flushed or not.
MapSemantics ==
    (storeState = "ready" /\ pc["c1"] = "idle") =>
        \A k \in Keys :
            LET i == LastWrite(history, k)
                g == Get(data, k, 0)
            IN  IF i = 0 \/ history[i].op = "delete"
                  THEN g = [value |-> NilSlice, ok |-> FALSE]
                  ELSE g.ok /\ bytesEqual(g.value, history[i].val)

\* Get returns a value whose entry has not reached the file
GetBeforeFlush ==
    /\ storeState = "ready" /\ pc["c1"] = "idle"
    /\ file = <<>> /\ Len(activeBuffer) = 2
    /\ Get(data, "a", 0) = [value |-> Bytes(<<1>>), ok |-> TRUE]
    /\ ~Get(data, "b", 0).ok

\* C10: Delete of a valid key returns a nil error; it returns true exactly
\* when the key was present, and the second of two Deletes of one key in a
\* row returns false.
DeleteReporting ==
    \A i \in 1..Len(history) :
        (history[i].op = "delete" /\ history[i].key # "") =>
            LET before == SubSeq(history, 1, i - 1)
                j == LastWrite(before, history[i].key)
            IN  /\ history[i].err = "nil"
                /\ history[i].existed = (j # 0 /\ before[j].op = "set")
                /\ (i > 1 /\ history[i - 1].op = "delete"
                          /\ history[i - 1].key = history[i].key)
                      => ~history[i].existed

\* two Deletes of one key in a row returned true, then false
DeletedTwice ==
    \E i \in 2..Len(history) :
        /\ history[i - 1].op = "delete" /\ history[i].op = "delete"
        /\ history[i - 1].key = history[i].key
        /\ history[i - 1].existed /\ ~history[i].existed

\* C11: the Index never shares an array with a buffer a caller holds (the
\* argument of a Set, the result of a Get), for values stored by Set and
\* for values stored by replay; so whatever the caller writes into those
\* buffers afterwards, Get answers for every key as the map of the calls
\* themselves.
CopyIsolation ==
    (storeState = "ready" /\ pc["c1"] = "idle") =>
        /\ \A k \in Keys : data[k].present => data[k].val.arr \notin HeldArrays
        /\ \A i \in 1..Len(activeBuffer) : activeBuffer[i].Value.arr \notin HeldArrays
        /\ GetAgrees(data, RefMap(history))

\* on a reopened Store the caller has overwritten both the buffer it had
\* passed to Set and the slice a Get of the replayed value returned
MutatedBothBuffers ==
    /\ storeState = "ready" /\ pc["c1"] = "idle" /\ nnew = 2
    /\ Len(history) >= 3
    /\ history[Len(history)].op = "write"
    /\ history[Len(history) - 1].op = "get" /\ history[Len(history) - 1].existed
    /\ \E i \in 1..Len(history) : history[i].op = "set"
    /\ Cardinality(HeldArrays) = 2
    /\ \E k \in Keys : data[k].present /\ data[k].val.arr = DecArr(1)
    /\ \A k \in Keys : data[k].present => data[k].val.b # <<255>>

\* C12: Set and Delete with an empty key return an error, and the step in
\* which they do leaves the WAL buffers, the writer, the log file, the
\* Index and every lock as they were; the WAL never takes an entry with an
\* empty key, and the call does not wait for the mutation lock.
ReturnsInvalidKey ==
    /\ Len(history') = Len(history) + 1
    /\ history'[Len(history')].err = "InvalidKey"

InvalidKeyRejected ==
    /\ [](\A i \in 1..Len(history) :
             (history[i].op \in {"set", "delete"} /\ history[i].key = "")
                 => history[i].err = "InvalidKey")
    /\ [](\A i \in 1..Len(submitted) : submitted[i].Key # "")
    /\ [][ReturnsInvalidKey =>
             UNCHANGED <<data, activeBuffer, pendingBuffer, writer, file, smu, mu,
                         flushMu, flushChan, submitted>>]_vars

\* a Set and a Delete with an empty key have been rejected, the Delete
\* while the other caller held the mutation lock
RejectedWhileLocked ==
    /\ smu # None
    /\ LastRet.op = "delete" /\ LastRet.err = "InvalidKey"
    /\ \E i \in 1..Len(history) : history[i].op = "set" /\ history[i].err = "InvalidKey"
    /\ activeBuffer # <<>>

\* C13: a Set or Delete called after Close has returned fails with a
\* Closed-state error and changes nothing: no call that follows a returned
\* Close in the order of returns has a nil error.
ClosedStoreRejects ==
    \A i \in 1..Len(history) :
        (/\ history[i].op \in {"set", "delete"}
         /\ \E j \in 1..(i - 1) : history[j].op = "close")
            => history[i].err = "Closed"

\* C14: Close on a Closed Store returns (an error or nil) and does not
\* panic; the Store stays Closed.
CloseRepeatable ==
    /\ storeState # "panicked"
    /\ \A i \in 1..Len(history) : history[i].op = "close" => history[i].err # "panic"

\* what a frame of the file is, told from its bytes
validItem(it) ==
    /\ it.cut = "full"
    /\ it.frame.length > 0
    /\ it.frame.checksum = crc32(it.frame.payload)
    /\ gobDecodable(it.frame.payload)
\* truncated length, zero length, truncated checksum, short payload or
\* checksum mismatch
damagedItem(it) ==
    \/ it.cut # "full"
    \/ it.frame.length = 0
    \/ it.frame.checksum # crc32(it.frame.payload)
validFrames(n) == \A i \in 1..n : validItem(file[i])
DamagedTail == file # <<>> /\ validFrames(Len(file) - 1) /\ damagedItem(file[Len(file)])
UndecodableTail ==
    /\ file # <<>> /\ validFrames(Len(file) - 1)
    /\ ~damagedItem(file[Len(file)])
    /\ ~gobDecodable(file[Len(file)].frame.payload)

\* C15: on a file of N >= 0 valid frames followed by a frame with a
\* truncated length, a zero length, a truncated checksum, a short payload or
\* a checksum mismatch, ReadAll returns ErrCorruptWAL and no entries; it
\* never succeeds, and New never yields a Store from such a file.
CorruptionDetected ==
    DamagedTail =>
        /\ pc["c1"] # "replay"
        /\ storeState # "ready"
        /\ pc["c1"] = "close" =>
              (loc["c1"].err = "ErrCorruptWAL" /\ loc["c1"].res = <<>>)

\* ReadAll has just failed on two valid frames followed by a complete frame
\* whose checksum does not match
MismatchAfterValidFrames ==
    /\ pc["c1"] = "close"
    /\ Len(file) = 3 /\ validFrames(2)
    /\ file[3].cut = "full" /\ file[3].frame.length > 0
    /\ file[3].frame.checksum # crc32(file[3].frame.payload)
    /\ loc["c1"].err = "ErrCorruptWAL"

\* C16: on a file whose last frame has a non-zero length and a matching
\* checksum but a payload that does not decode, ReadAll fails with an error
\* in which errors.Is finds ErrCorruptWAL.
DecodeFailureIsCorruption ==
    (UndecodableTail /\ pc["c1"] = "close") => loc["c1"].err = "ErrCorruptWAL"

\* C17: on an empty file and on a file that ends after a complete valid
\* frame ReadAll returns a nil error and the entries of all frames in file
\* order; New yields a Store from it and never takes the failure path.
CleanEOF ==
    validFrames(Len(file)) =>
        /\ pc["c1"] \notin {"close", "wait", "closeFile"}
        /\ storeState # "failed"
        /\ (pc["c1"] = "replay" /\ loc["c1"].op = "new") =>
              (loc["c1"].err = "nil" /\ sameEntries(loc["c1"].res, submitted))

\* ReadAll has returned the two entries of a file of two valid frames, one
\* of them a Set with a value
ScannedTwoFrames ==
    /\ pc["c1"] = "replay" /\ loc["c1"].op = "new"
    /\ Len(file) = 2 /\ validFrames(2)
    /\ Len(loc["c1"].res) = 2
    /\ \E i \in 1..2 : loc["c1"].res[i].Value.b = <<1>>

\* C18: when New has returned an error, no Store exists, the error is the
\* one ReadAll returned, the worker has terminated, no lock is held and
\* the file handle is closed.
FailedNewLeaksNothing ==
    /\ (scanFromStart(file, <<>>).err # "nil") => storeState # "ready"
    /\ (pc["c1"] = "idle" /\ LastRet.op = "new" /\ LastRet.err # "nil") =>
          /\ storeState = "failed"
          /\ LastRet.err = scanFromStart(file, <<>>).err
          /\ pc[Worker] = "exited"
          /\ doneChan = "closed"
          /\ mu = None /\ flushMu = None
          /\ fileClosed

\* New has failed on a damaged file and returned
NewFailedOnDamage ==
    /\ pc["c1"] = "idle" /\ storeState = "failed"
    /\ LastRet.op = "new" /\ LastRet.err = "ErrCorruptWAL"
    /\ Len(file) = 3

\* C19: after a flush cycle in which the write to the log file failed, the
\* Store does not go on returning nil from Set/Delete while the entries it
\* took are dropped from the buffers without having been written.
Discarded ==
    /\ activeBuffer = <<>> /\ pendingBuffer = <<>>
    /\ pc[Worker] = "select" /\ CallersIdle
    /\ Len(file) < Len(submitted)

FlushFailureSurfaced ==
    \A f \in 1..Len(history) :
        history[f].op = "flushError" =>
            ~ /\ Discarded
              /\ \E i, j \in (f + 1)..Len(history) :
                    /\ i < j
                    /\ IsMutation(history[i]) /\ IsMutation(history[j])

\* C20: when Close is about to close the file handle, and so when it
\* returns, the frame of every entry whose Append had returned before Close
\* was called is in the log file, in submission order, and the worker has
\* finished its last cycle and terminated; the handle is closed only then.
CloseDrains ==
    /\ (pc["c1"] = "closeFile" /\ loc["c1"].op = "close") =>
          /\ pc[Worker] = "exited"
          /\ ~fileClosed
          /\ Len(file) >= Len(loc["c1"].seen)
          /\ \A i \in 1..Len(loc["c1"].seen) :
                file[i] = Item(Frame(loc["c1"].seen[i]), "full")
    /\ (fileClosed /\ storeState # "none") =>
          (storeState = "closed" /\ pc[Worker] = "exited" /\ flushMu = None)

\* Close is about to close the handle; two Appends had returned when it
\* was called and a third ran while it was draining
ClosedWhileAppending ==
    /\ pc["c1"] = "closeFile" /\ loc["c1"].op = "close"
    /\ Len(loc["c1"].seen) = 2
    /\ Len(submitted) = 3
    /\ Len(file) >= 2

\* entries a, in order, among entries b
RECURSIVE IsSubseq(_, _)
IsSubseq(a, b) ==
    IF a = <<>> THEN TRUE
    ELSE IF b = <<>> THEN FALSE
    ELSE IF /\ Head(a).Type = Head(b).Type /\ Head(a).Key = Head(b).Key
            /\ bytesEqual(Head(a).Value, Head(b).Value)
           THEN IsSubseq(Tail(a), Tail(b))
         ELSE IsSubseq(a, Tail(b))

\* C21: in the synchronous WAL, with no I/O error, a ReadAll made after a
\* crash returns nil and yields every entry whose Append had returned nil,
\* in the order of the returns.
SyncDurability ==
    \A t \in Callers :
        (/\ loc[t].op = "readall"
         /\ loc[t].seen # <<>>
         /\ \E i \in 1..Len(history) : history[i].op = "crash"
         /\ \A i \in 1..Len(history) :
                history[i].op \in {"append", "close"} => history[i].err = "nil")
        => /\ loc[t].err = "nil"
           /\ IsSubseq(loc[t].seen, loc[t].res)

\* C22: after SaveToDisk and a LoadFromDisk from the same directory, the
\* encoded value stored under every saved key is the encoded value that
\* was stored under it when the snapshot was saved.
SnapshotRoundTrip ==
    (LastRet.op = "load" /\ snapshot.exists) =>
        \A q \in snapshot.pairs : sm[q[1]] = KvPresent(q[2])

\* C23: the flush signal never blocks: no Append waits in the send on
\* flushChan; when a signal is already queued Append returns without
\* queueing another.
SignalNonBlocking == \A c \in Callers : pc[c] # "send"

\* C24: no reachable state has an appender holding the buffer lock while
\* it waits on the flush signal and the flush worker waiting for that lock.
NoAppendFlushDeadlock ==
    ~ \E c \in Callers :
        /\ pc[c] = "send" /\ mu = c /\ flushChan = 1
        /\ pc[Worker] \in {"fSwap", "fClear"}

\* C25: with a fairly scheduled worker, no I/O failure and no Close, every
\* entry Append has accepted is eventually a complete frame of the log file.
EventuallyPersisted ==
    \A i \in 1..MaxOps :
        [](Len(submitted) >= i => <>(Len(file) >= i /\ file[i].cut = "full"))

\* C26: the flush worker is the only thread that writes to the log file:
\* every step that changes the file is a step of the worker holding flushMu.
SingleWriter == [][file' # file => flushMu = Worker]_vars

\* C30: whenever swapBuffers exchanges the buffers, the pending buffer is
\* empty before the exchange and the active buffer is empty after it.
PendingEmptyAtSwap ==
    [][\A t \in Threads :
          (pc[t] = "fSwap" /\ pc'[t] = "fLock" /\ activeBuffer # <<>>)
              => (pendingBuffer = <<>> /\ activeBuffer' = <<>>)]_vars

\* C27: Get can be taken whatever Set or Delete is doing, also while one
\* holds Store.mu or is parked inside WAL.Append, and the step in which a
\* Get returns leaves the Index, Store.mu, the WAL and the log file as
\* they were.
GetReadOnlyLockFree ==
    /\ [](\A k \in Keys :
            (pc["c2"] = "idle" /\ nops < MaxOps) => ENABLED StoreGet("c2", k))
    /\ [][(Len(history') > Len(history) /\ history'[Len(history')].op = "get")
            => UNCHANGED <<data, smu, walVars, file>>]_vars

\* a Get has returned while a Set holds Store.mu and is parked in the send
\* of WAL.Append
GetWhileAppendBlocked ==
    LastRet.op = "get" /\ smu = "c1" /\ mu = "c1" /\ pc["c1"] = "send"

\* the Set and Delete calls that wrote the entries es, entries of any other
\* kind removed
KnownCalls(es) ==
    LET known == SelectSeq(es, LAMBDA e : e.Type \in {OperationSet, OperationDelete})
    IN  [i \in 1..Len(known) |->
            Ret(known[i].Type, known[i].Key, known[i].Value, FALSE, "nil")]

\* C28: New on a log of intact frames succeeds whether or not entries of
\* an unknown kind are among them, and the Index it builds is that of the
\* replay of the log with the entries of unknown kind removed.
UnknownKindsSkipped ==
    /\ file = framesOf(submitted) => storeState # "failed"
    /\ (storeState = "ready" /\ pc["c1"] = "idle" /\ LastRet.op = "new")
          => GetAgrees(data, RefMap(KnownCalls(submitted)))

\* New has returned a Store from a log whose first entry is of unknown
\* kind and whose second entry, a Set, has been applied
ReplayedPastUnknown ==
    /\ storeState = "ready" /\ LastRet.op = "new"
    /\ Len(submitted) = 2
    /\ submitted[1].Type = "future"
    /\ submitted[2].Type = OperationSet
    /\ data[submitted[2].Key].present

\* the bytes of g start with the bytes of f
ExtendsFile(f, g) ==
    /\ Len(g) >= Len(f)
    /\ \A i \in 1..Len(f) :
          /\ g[i].frame = f[i].frame
          /\ \/ g[i].cut = f[i].cut
             \/ i = Len(f) /\ f[i].cut # "full" /\ g[i].cut = "full"

\* C29: the log file is append-only: whatever Append, the flush cycles,
\* ReadAll with its seeks and Close do, the file before a step is a prefix
\* of the file after it.
AppendOnly == [][ExtendsFile(file, file')]_vars

\* a Recover has failed on the Ready Store, later cycles have written, and
\* the file holds two complete frames
WrittenAfterFailedScan ==
    /\ \E i \in 1..Len(history) : history[i].op = "recover" /\ history[i].err # "nil"
    /\ Len(file) >= 2
    /\ \A i \in 1..Len(file) : file[i].cut = "full"

\* the frames a flusher holds or has written: the rest of its range, the
\* writer buffer, the file
InFlight(f) ==
    \/ \E i \in 1..Len(file) : file[i].frame = f
    \/ \E i \in 1..Len(writer.buf) : writer.buf[i] = f
    \/ \E t \in Threads : \E i \in 1..Len(loc[t].rng) : Frame(loc[t].rng[i]) = f

\* C31: every entry Append has accepted is written to the log file at most
\* once, and no flush cycle drops it unwritten: it is in a buffer, in the
\* hands of a flush cycle, or in the file.
ExactlyOnce ==
    /\ \A i, j \in 1..Len(file) : i # j => file[i].frame # file[j].frame
    /\ \A n \in 1..Len(submitted) :
          \/ \E i \in 1..Len(activeBuffer) : activeBuffer[i] = submitted[n]
          \/ \E i \in 1..Len(pendingBuffer) : pendingBuffer[i] = submitted[n]
          \/ InFlight(Frame(submitted[n]))

\* C32: with no kill and no I/O error, on a log written by this WAL only,
\* no ReadAll returns ErrCorruptWAL, whatever flush cycle runs beside it.
ScanNeverCorrupt ==
    \A i \in 1..Len(history) :
        history[i].op = "recover" => history[i].err # "ErrCorruptWAL"

\* C33: once a Recover called on the Ready Store and the Set calls running
\* beside it have all returned, the Index answers as a plain map to which
\* the Set calls were applied in order: Recover has put no older logged
\* value over a newer one.
RecoverAgreement ==
    (/\ CallersIdle
     /\ \E i \in 1..Len(history) : history[i].op = "recover" /\ history[i].err = "nil")
        => GetAgrees(data, RefMap(history))

\* C34: with the synchronous WAL, a Set or Delete that returned an error of
\* Append is absent from every later replay of the log: the entries a New
\* or a Recover reads are entries of the calls that returned nil, in order.
FailedMutationAbsent ==
    \A t \in Callers :
        (loc[t].op \in {"new", "recover"} /\ loc[t].err = "nil")
            => IsSubseq(loc[t].res, EntriesOf(Mutations(history)))

====
